---- MODULE Spec2Model ----
(***************************************************************************)
(* A state-machine model of server/player/player.go of dragonfly: the      *)
(* player entity with its health, absorption, hunger, armour, movement,    *)
(* block breaking and riding state, and the cancellable event pipeline     *)
(* through which every mutating operation consults the installed handler.  *)
(*                                                                         *)
(* Go methods are operators over a record `s` that holds the fields of     *)
(* the player and of the part of the world the method touches; an action   *)
(* applies one public method to the current state and commits the result.  *)
(* float64 quantities are fixed-point integers: health and damage in       *)
(* units of 1/HP, exhaustion in 1/EXH, saturation in 1/SAT.                *)
(***************************************************************************)
EXTENDS Integers, Sequences, FiniteSets, TLC

\* ------------------------------------------------------------------ bounds
\* Number of public operations invoked in one behaviour.
MaxOps == 2
\* Largest raw damage / heal amount (in whole health points) an operation is
\* invoked with; the inputs also include one amount above the maximum health.
MaxDmg == 2

\* ------------------------------------------------------- fixed-point units
HP == 4 * 125
EXH == 10 * 100
SAT == 2 * 5
SPD == 10 * 100

Max(a, b) == IF a >= b THEN a ELSE b
Min(a, b) == IF a <= b THEN a ELSE b
\* Go's int(x) conversion of x = num/den: truncation toward zero.
Trunc(num, den) == IF num >= 0 THEN num \div den ELSE -((-num) \div den)
\* Sequencing of the statements of a method: the value v of one statement
\* is handed to the statements that follow it.
Then(v, Rest(_)) == Rest(v)

\* ---------------------------------------------------------------- state
VARIABLES
    health, maxHealth,          \* entity.HealthManager
    absorptionHealth,           \* Player.absorptionHealth
    gameMode,                   \* Player.gameMode
    h,                          \* Player.h: the installed handler
    hasSession,                 \* Player.s # nil
    closed,                     \* close() has run
    inWorld,                    \* Player.World() # nil
    effects,                    \* entity.EffectManager: kind -> level (0 absent)
    effectTicks,                \* entity.EffectManager: kind -> remaining ticks
    armour,                     \* inventory.Armour: slot -> stack
    held,                       \* item stack in the main hand
    vel, pos, yaw, pitch,       \* Player.vel, pos, yaw, pitch
    onGround, fallDistance,     \* Player.onGround, fallDistance
    mcOnGround,                 \* MovementComputer.OnGround() of Player.mc
    immunity,                   \* number of times the immunity deadline was set
    foodLevel, saturationLevel, \* hungerManager
    exhaustionLevel, foodTick,
    sprinting, sneaking, swimming, flying, immobile, invisible,
    speed, fireTicks,
    skin,                       \* Player.skin
    riding,                     \* Player.riding: "none" or a rideable
    seatPosition,               \* Player.seatPosition
    riders,                     \* world: rideable -> sequence of riders
    others,                     \* world: the other riders' player state
    blocks,                     \* world: position -> block
    chest,                      \* world: item stacks in the container block
    items,                      \* world: number of item entities spawned
    difficulty,                 \* world difficulty
    deathTimers,                \* pending time.AfterFunc callbacks of kill
    cooldowns,                  \* item -> the time its cooldown expires
    breaking,                   \* whether a block is being broken
    breakingPos,                \* the position StartBreaking last targeted
    breakParticleCounter,       \* ContinueBreaking calls of the breaking session
    lastBreakDuration,          \* break time last shown to the viewers
    now,                        \* world: the wall clock read by time.Now()
    mu,                         \* the player's locks: lock -> its holders
    th,                         \* the goroutines calling into the player
    acc,                        \* lock and field accesses of the last step
    ops,                        \* number of operations invoked so far
    op,                         \* the last operation invoked and its arguments
    ret,                        \* the value the last operation returned
    hooks,                      \* handler hooks invoked by the last operation
    ran,                        \* event-pipeline closures run by the last operation
    out                         \* notifications sent by the last operation

plVars == <<health, maxHealth, absorptionHealth, gameMode, h, hasSession, closed, inWorld,
            effects, effectTicks, armour, held, vel, pos, yaw, pitch, onGround, fallDistance,
            mcOnGround, immunity, foodLevel, saturationLevel, exhaustionLevel, foodTick,
            sprinting, sneaking, swimming, flying, immobile, invisible, speed,
            fireTicks, skin, riding, seatPosition, deathTimers, cooldowns,
            breaking, breakingPos, breakParticleCounter, lastBreakDuration, mu, th>>
wlVars == <<riders, others, blocks, chest, items, difficulty, now>>
obVars == <<ops, op, ret, hooks, ran, out, acc>>
vars == <<plVars, wlVars, obVars>>

\* The current state as the record the method operators work on.
Cur ==
    [health |-> health, maxHealth |-> maxHealth, absorptionHealth |-> absorptionHealth,
     gameMode |-> gameMode, h |-> h, hasSession |-> hasSession, closed |-> closed,
     inWorld |-> inWorld,
     effects |-> effects, effectTicks |-> effectTicks, armour |-> armour, held |-> held,
     vel |-> vel, pos |-> pos, yaw |-> yaw, pitch |-> pitch,
     onGround |-> onGround, fallDistance |-> fallDistance,
     mcOnGround |-> mcOnGround, immunity |-> immunity,
     foodLevel |-> foodLevel, saturationLevel |-> saturationLevel,
     exhaustionLevel |-> exhaustionLevel, foodTick |-> foodTick,
     sprinting |-> sprinting, sneaking |-> sneaking, swimming |-> swimming,
     flying |-> flying,
     immobile |-> immobile, invisible |-> invisible, speed |-> speed,
     fireTicks |-> fireTicks, skin |-> skin, riding |-> riding,
     seatPosition |-> seatPosition, riders |-> riders, others |-> others,
     blocks |-> blocks, chest |-> chest, items |-> items, difficulty |-> difficulty,
     deathTimers |-> deathTimers, cooldowns |-> cooldowns, breaking |-> breaking,
     breakingPos |-> breakingPos, breakParticleCounter |-> breakParticleCounter,
     lastBreakDuration |-> lastBreakDuration, now |-> now, mu |-> mu, th |-> th,
     ret |-> <<>>, hooks |-> <<>>, ran |-> <<>>, out |-> <<>>, acc |-> <<>>]

\* The record q is the next state, reached by o, after n operations.
Assign(q, o, n) ==
    /\ health' = q.health /\ maxHealth' = q.maxHealth
    /\ absorptionHealth' = q.absorptionHealth
    /\ gameMode' = q.gameMode /\ h' = q.h /\ hasSession' = q.hasSession
    /\ closed' = q.closed /\ inWorld' = q.inWorld
    /\ effects' = q.effects /\ effectTicks' = q.effectTicks
    /\ armour' = q.armour /\ held' = q.held
    /\ vel' = q.vel /\ pos' = q.pos /\ yaw' = q.yaw /\ pitch' = q.pitch
    /\ onGround' = q.onGround /\ fallDistance' = q.fallDistance
    /\ mcOnGround' = q.mcOnGround /\ immunity' = q.immunity
    /\ foodLevel' = q.foodLevel /\ saturationLevel' = q.saturationLevel
    /\ exhaustionLevel' = q.exhaustionLevel /\ foodTick' = q.foodTick
    /\ sprinting' = q.sprinting /\ sneaking' = q.sneaking /\ swimming' = q.swimming
    /\ flying' = q.flying
    /\ immobile' = q.immobile /\ invisible' = q.invisible /\ speed' = q.speed
    /\ fireTicks' = q.fireTicks /\ skin' = q.skin /\ riding' = q.riding
    /\ seatPosition' = q.seatPosition /\ riders' = q.riders /\ others' = q.others
    /\ blocks' = q.blocks /\ chest' = q.chest /\ items' = q.items
    /\ difficulty' = q.difficulty /\ deathTimers' = q.deathTimers
    /\ cooldowns' = q.cooldowns /\ breaking' = q.breaking /\ breakingPos' = q.breakingPos
    /\ breakParticleCounter' = q.breakParticleCounter
    /\ lastBreakDuration' = q.lastBreakDuration /\ now' = q.now
    /\ mu' = q.mu /\ th' = q.th
    /\ ret' = q.ret /\ hooks' = q.hooks /\ ran' = q.ran /\ out' = q.out /\ acc' = q.acc
    /\ op' = o
    /\ ops' = n
\* Commit the record q as the next state, as the result of operation o.
Commit(q, o) == Assign(q, o, ops + 1)

\* ------------------------------------------------ collaborators (tables)
\* world.GameMode: "survival", "creative", "adventure", "spectator"
AllowsTakingDamage(m) == m \in {"survival", "adventure"}
AllowsEditing(m) == m \in {"survival", "creative"}
AllowsInteraction(m) == m # "spectator"
AllowsFlying(m) == m \in {"creative", "spectator"}
CreativeInventory(m) == m = "creative"
Visible(m) == m # "spectator"

\* world.Difficulty: "peaceful", "easy", "normal", "hard"
FoodRegenerates(d) == d = "peaceful"

\* damage.Source: the kind of the source and, for an entity attack, the
\* level of the Sharpness enchantment on the item the attacker holds.
\* The kinds: "entityAttack", "fall", "fire", "fireTick", "lava", "void",
\* "starvation", "custom".
Src(k, sharp) == [kind |-> k, sharp |-> sharp]
ReducedByArmour(src) == src.kind \in {"entityAttack", "fire", "lava"}
FireSource(src) == src.kind \in {"fire", "fireTick", "lava"}
\* effect.Absorption.Absorbs
Absorbs(src) == src.kind \notin {"void", "starvation"}
\* effect.Resistance.Multiplier, as a fraction of fifths
ResistanceFifths(src, lvl) == IF src.kind \in {"void", "starvation"} THEN 5 ELSE Max(5 - lvl, 0)
\* enchantment.Sharpness.Addend, enchantment.Protection.Subtrahend
SharpnessAddend(lvl) == (lvl * 5 * HP) \div 4
ProtectionSubtrahend(lvl) == (lvl * 3 * HP) \div 4
\* enchantment.FeatherFalling.Multiplier, as a fraction of 25ths
FeatherFallingParts(lvl) == 25 - 3 * lvl

EffectKinds == {"fireResistance", "resistance", "absorption", "jumpBoost", "invisibility"}
NoEffects == [k \in EffectKinds |-> 0]
\* EffectManager.Effect: the level and whether the effect is present
HasEffect(s, k) == s.effects[k] > 0
\* EffectManager.Remove
EffectsRemove(s, k) == [s EXCEPT !.effects[k] = 0, !.effectTicks[k] = 0]
\* EffectManager.Add: an instance of a kind already present is replaced only
\* by a higher level, or by the same level with a longer duration. The
\* instance the manager holds afterwards is sent to the session.
EffectManager_Add_Always(s, k, lvl, dur) == [s EXCEPT !.effects[k] = lvl, !.effectTicks[k] = dur]
EffectManager_Add(s, k, lvl, dur) ==
    IF ~HasEffect(s, k) \/ lvl > s.effects[k] \/ (lvl = s.effects[k] /\ dur > s.effectTicks[k])
    THEN [s EXCEPT !.effects[k] = lvl, !.effectTicks[k] = dur]
    ELSE s
\* EffectManager.Tick: each instance loses a tick and is removed when none
\* is left.
EffectManager_Tick(s) ==
    [s EXCEPT !.effectTicks = [k \in EffectKinds |-> Max(0, s.effectTicks[k] - 1)],
              !.effects = [k \in EffectKinds |-> IF s.effectTicks[k] <= 1 THEN 0 ELSE s.effects[k]]]

\* item.Stack. kind "armour" implements armour.Armour; durable stacks
\* implement item.Durable and carry their remaining durability.
EmptyStack == [kind |-> "empty", durable |-> FALSE, dur |-> 0, dp |-> 0, kbr |-> 0,
               prot |-> 0, thorns |-> 0, ff |-> 0, unb |-> 0, breakDur |-> 0]
Piece(dp, dur, kbr, prot, thorns, ff, unb) ==
    [kind |-> "armour", durable |-> TRUE, dur |-> dur, dp |-> dp, kbr |-> kbr,
     prot |-> prot, thorns |-> thorns, ff |-> ff, unb |-> unb, breakDur |-> 0]
Tool(kind, dur, breakDur) ==
    [kind |-> kind, durable |-> TRUE, dur |-> dur, dp |-> 0, kbr |-> 0,
     prot |-> 0, thorns |-> 0, ff |-> 0, unb |-> 0, breakDur |-> breakDur]
Empty(st) == st.kind = "empty"
IsArmour(st) == st.kind = "armour"
\* item.Stack.Damage: a durable stack loses d durability and breaks (becomes
\* the empty stack) when none is left.
StackDamage(st, d) ==
    IF ~st.durable THEN st
    ELSE IF st.dur - d <= 0 THEN EmptyStack
    ELSE [st EXCEPT !.dur = st.dur - d]

ArmourSlots == 0 .. 3
Boots == 3

\* ------------------------------------------------ event pipeline, handler
\* A handler is the policy it implements: the hooks whose context it
\* cancels and the damage / heal amount it writes back through the pointer
\* it is given (<<>> leaves the amount, <<v>> writes v). NopHandler cancels nothing and
\* rewrites nothing. rnd is the outcome of the random draws of an operation.
\* The hooks: HandleHurt, HandleHeal, HandleFoodLoss, HandleToggleSprint,
\* HandleToggleSneak, HandleItemDamage, HandleMove, HandleTeleport,
\* HandleBlockBreak, HandleMount, HandleDismount, HandleSkinChange,
\* HandleDeath, HandleRespawn, HandleQuit.
Handler(user, cancel, amount) == [user |-> user, cancel |-> cancel, amount |-> amount]
NopHandler == Handler(FALSE, {}, <<>>)
\* The nil Handler interface value.
NilHandler == [user |-> FALSE, cancel |-> {}, amount |-> <<>>, nil |-> TRUE]
IsNil(hd) == "nil" \in DOMAIN hd
Handle_StoresNil(s, hd) == [s EXCEPT !.h = hd]
\* Player.Handle
Handle(s, hd) == [s EXCEPT !.h = IF IsNil(hd) THEN NopHandler ELSE hd]
Pol(s, rnd) == [cancel |-> s.h.cancel, amount |-> s.h.amount, rnd |-> rnd]

\* Handler hook invocation: p.handler().HandleX(ctx, ...) and the
\* disposition of ctx when the hook returns.
Cancelled(s, pol, hook) == hook \in pol.cancel
HookWith(s, pol, hook, args) ==
    [s EXCEPT !.hooks = Append(@, [hook |-> hook, cancel |-> Cancelled(s, pol, hook),
                                   args |-> args])]
Hook(s, pol, hook) == HookWith(s, pol, hook, <<>>)
\* The amount a hook leaves in *dmg / *health.
Rewritten(s, pol, amount) == IF pol.amount # <<>> THEN pol.amount[1] ELSE amount
\* event.Context.Continue / Stop: the closure runs iff the context is not /
\* is cancelled. Ran records that the closure of operation o was entered.
CtxContinue(ctx) == ~ctx
CtxStop(ctx) == ctx
Ran(s, o, kind) == [s EXCEPT !.ran = Append(@, <<o, kind>>)]
Send(s, msg) == [s EXCEPT !.out = Append(@, msg)]

\* ------------------------------------------------------- HealthManager
\* entity.HealthManager.AddHealth: add and clamp to [0, max].
HM_AddHealth(cur, max, delta) == Max(0, Min(max, cur + delta))
\* entity.HealthManager.SetMaxHealth: panics for max <= 0; lowers the
\* current health to the new maximum.
HM_SetMaxHealth(s, max) == [s EXCEPT !.maxHealth = max, !.health = Min(s.health, max)]

\* Player.addHealth
addHealth_Unclamped(s, delta) == [s EXCEPT !.health = s.health + delta]
addHealth(s, delta) == [s EXCEPT !.health = HM_AddHealth(s.health, s.maxHealth, delta)]
\* Player.Dead
Dead(s) == s.health <= 0

\* ------------------------------------------------------- hungerManager
Clamp20(level) == Max(0, Min(20, level))
hm_SetFood(s, level) == [s EXCEPT !.foodLevel = Clamp20(level)]
hm_AddFood(s, points) == [s EXCEPT !.foodLevel = Clamp20(s.foodLevel + points)]
hm_saturate(s, food, saturation) ==
    LET level == Clamp20(s.foodLevel + food)
        sat == Max(0, Min(level * SAT, s.saturationLevel + saturation))
    IN [s EXCEPT !.foodLevel = level, !.saturationLevel = sat]
hm_Reset(s) == [s EXCEPT !.foodLevel = 20, !.saturationLevel = 5 * SAT,
                         !.exhaustionLevel = 0, !.foodTick = 0]
RECURSIVE hm_drain(_)
hm_drain(s) ==
    IF s.exhaustionLevel < 4 * EXH THEN s
    ELSE LET s1 == [s EXCEPT !.exhaustionLevel = @ - 4 * EXH]
         IN IF s1.saturationLevel > 0
            THEN hm_drain([s1 EXCEPT !.saturationLevel = Max(0, @ - SAT)])
            ELSE hm_drain([s1 EXCEPT !.foodLevel = Max(0, @ - 1)])
hm_exhaust(s, points) == hm_drain([s EXCEPT !.exhaustionLevel = @ + points])
hm_canSprint(s) == s.foodLevel > 6
hm_canQuicklyRegenerate(s) == s.foodLevel >= 18
hm_canRegenerate(s) == s.foodLevel = 20
hm_starving(s) == s.foodLevel = 0

\* Player.sendFood
sendFood(s) == Send(s, <<"food", s.foodLevel, s.saturationLevel>>)

\* Player.SetSpeed
SetSpeed(s, v) == [s EXCEPT !.speed = v]
\* float64 speeds: <<k, u>> is the float64 u units in the last place above
\* the float64 nearest to k / 1000. The products with 1.3 and the quotients
\* by 1.3, rounded to nearest as float64 arithmetic rounds them, of the
\* speeds the scenarios reach: 0.1 * 1.3 is the float64 0.13 and 0.13 / 1.3
\* is 0.1 again, while 0.11 * 1.3 is 0.14300000000000002 and that divided by
\* 1.3 is 0.11000000000000001.
F64_Times13(v) ==
    (<<50, 0>> :> <<65, 0>> @@ <<100, 0>> :> <<130, 0>>
     @@ <<110, 0>> :> <<143, 1>> @@ <<110, 1>> :> <<143, 1>>)[v]
F64_Over13(v) ==
    (<<65, 0>> :> <<50, 0>> @@ <<130, 0>> :> <<100, 0>> @@ <<143, 1>> :> <<110, 1>>)[v]

\* Player.StopSprinting
StopSprinting(s, pol) ==
    LET s1 == Hook(s, pol, "HandleToggleSprint")
    IN IF CtxContinue(Cancelled(s, pol, "HandleToggleSprint"))
       THEN IF ~s1.sprinting THEN s1
            ELSE SetSpeed([s1 EXCEPT !.sprinting = FALSE], F64_Over13(s1.speed))
       ELSE s1

\* Player.StopSneaking
StopSneaking(s, pol) ==
    LET s1 == Hook(s, pol, "HandleToggleSneak")
    IN IF CtxContinue(Cancelled(s, pol, "HandleToggleSneak"))
       THEN [s1 EXCEPT !.sneaking = FALSE]
       ELSE s1

\* Player.StartSprinting
StartSprinting(s, pol) ==
    IF ~hm_canSprint(s) /\ AllowsTakingDamage(s.gameMode) THEN s
    ELSE LET s1 == Hook(s, pol, "HandleToggleSprint")
         IN IF CtxContinue(Cancelled(s, pol, "HandleToggleSprint"))
            THEN IF s1.sprinting THEN s1
                 ELSE Then(StopSneaking([s1 EXCEPT !.sprinting = TRUE], pol), LAMBDA s2 :
                      SetSpeed(s2, F64_Times13(s2.speed)))
            ELSE s1

\* Player.StartSneaking
StartSneaking(s, pol) ==
    LET s1 == Hook(s, pol, "HandleToggleSneak")
    IN IF CtxContinue(Cancelled(s, pol, "HandleToggleSneak"))
       THEN IF s1.sneaking THEN s1
            ELSE StopSprinting([s1 EXCEPT !.sneaking = TRUE], pol)
       ELSE s1

\* Player.SetFood, AddFood, Saturate
SetFood_Unclamped(s, level) == sendFood([s EXCEPT !.foodLevel = level])
SetFood(s, level) == sendFood(hm_SetFood(s, level))
AddFood(s, points) == sendFood(hm_AddFood(s, points))
Saturate(s, food, saturation) == sendFood(hm_saturate(s, food, saturation))

Exhaust_KeepsLoss(s, points, pol) ==
    IF ~AllowsTakingDamage(s.gameMode) THEN s
    ELSE Then(IF ~FoodRegenerates(s.difficulty) THEN hm_exhaust(s, points) ELSE s, LAMBDA s1 :
         IF s.foodLevel # s1.foodLevel
         THEN sendFood(HookWith(s1, pol, "HandleFoodLoss", <<s.foodLevel, s1.foodLevel>>))
         ELSE sendFood(s1))
\* Player.Exhaust
Exhaust(s, points, pol) ==
    IF ~AllowsTakingDamage(s.gameMode) THEN s
    ELSE Then(IF ~FoodRegenerates(s.difficulty) THEN hm_exhaust(s, points) ELSE s, LAMBDA s1 :
         LET before == s.foodLevel
             after == s1.foodLevel
         IN IF before # after
            THEN Then(HookWith(hm_SetFood(s1, before), pol, "HandleFoodLoss", <<before, after>>),
                      LAMBDA s2 :
                 IF CtxContinue(Cancelled(s, pol, "HandleFoodLoss"))
                 THEN IF before >= 7 /\ after <= 6
                      THEN sendFood(StopSprinting(hm_SetFood(s2, after), pol))
                      ELSE sendFood(hm_SetFood(s2, after))
                 ELSE sendFood(s2))
            ELSE sendFood(s1))

\* ------------------------------------------------------------- combat
Ret(s, v) == [s EXCEPT !.ret = v]

\* Player.damageItem: the stack after d points of wear. In creative mode or
\* for d = 0 the stack is returned as is; the wear is applied only if the
\* item-damage hook continues. enchantment.Unbreaking.Reduce draws at
\* random how much of the wear is ignored: all of it or none (pol.rnd).
damageItemStack(s, st, d, pol) ==
    IF CreativeInventory(s.gameMode) \/ d = 0 THEN st
    ELSE IF CtxContinue(Cancelled(s, pol, "HandleItemDamage"))
         THEN StackDamage(st, IF st.unb > 0 /\ pol.rnd THEN 0 ELSE d)
         ELSE st
damageItemHook(s, d, pol) ==
    IF CreativeInventory(s.gameMode) \/ d = 0 THEN s ELSE Hook(s, pol, "HandleItemDamage")

\* The wear loop of FinalDamageFrom over p.armour.Slots(): every durable
\* armour piece takes d points of wear.
RECURSIVE WearArmour(_, _, _, _)
WearArmour(s, i, d, pol) ==
    IF i > 3 THEN s
    ELSE LET it == s.armour[i]
             s1 == IF IsArmour(it) /\ it.durable
                   THEN [damageItemHook(s, d, pol) EXCEPT !.armour[i] = damageItemStack(s, it, d, pol)]
                   ELSE s
         IN WearArmour(s1, i + 1, d, pol)

DefencePoints(arm) ==
    LET RECURSIVE Sum(_)
        Sum(i) == IF i > 3 THEN 0
                  ELSE (IF IsArmour(arm[i]) THEN arm[i].dp ELSE 0) + Sum(i + 1)
    IN Sum(0)
ProtectionTotal(arm) ==
    LET RECURSIVE Sum(_)
        Sum(i) == IF i > 3 THEN 0
                  ELSE (IF ~Empty(arm[i]) /\ arm[i].prot > 0
                        THEN ProtectionSubtrahend(arm[i].prot) ELSE 0) + Sum(i + 1)
    IN Sum(0)
KnockBackResistance(arm) ==
    LET RECURSIVE Sum(_)
        Sum(i) == IF i > 3 THEN 0
                  ELSE (IF ~Empty(arm[i]) /\ IsArmour(arm[i]) THEN arm[i].kbr ELSE 0) + Sum(i + 1)
    IN Sum(0)

\* The armour reduction of FinalDamageFrom: 4% of the damage for every
\* defence point.
ArmourReduced_PerFifth(dmg, points) == dmg - (dmg * points) \div 5
ArmourReduced(dmg, points) == dmg - (dmg * points) \div 25
\* The clamp of the value FinalDamageFrom returns.
FinalClamp_None(dmg) == dmg
FinalClamp(dmg) == Max(dmg, 0)

\* Player.FinalDamageFrom: the state after the armour wear and the damage.
FinalDamageFrom(s, dmg, src, pol) ==
    LET reduced == ReducedByArmour(src)
        t == Trunc(dmg, 4 * HP)
        damageToArmour == IF t = 0 THEN 1 ELSE t
        defencePoints == DefencePoints(s.armour)
    IN Then(IF reduced THEN WearArmour(s, 0, damageToArmour, pol) ELSE s, LAMBDA s1 :
       Then(IF reduced THEN ArmourReduced(dmg, defencePoints) ELSE dmg, LAMBDA d1 :
       Then(IF HasEffect(s1, "resistance")
            THEN (d1 * ResistanceFifths(src, s1.effects["resistance"])) \div 5 ELSE d1, LAMBDA d2 :
       Then(IF src.kind = "entityAttack" /\ src.sharp > 0
            THEN d2 + SharpnessAddend(src.sharp) ELSE d2, LAMBDA d3 :
       Then(d3 - ProtectionTotal(s1.armour), LAMBDA d4 :
       Then(IF s1.armour[Boots].ff > 0 /\ src.kind = "fall"
            THEN (d4 * FeatherFallingParts(s1.armour[Boots].ff)) \div 25 ELSE d4, LAMBDA d5 :
       [s |-> s1, dmg |-> FinalClamp(d5)]))))))

\* Player.SetAbsorption
SetAbsorption(s, v) == [s EXCEPT !.absorptionHealth = Max(v, 0)]

\* Player.SetAttackImmunity
SetAttackImmunity(s) == [s EXCEPT !.immunity = @ + 1]

\* The thorns loop of Hurt: every armour piece with Thorns takes 3 points
\* of wear when the enchantment triggers (rand.Float64() < level * 0.15,
\* drawn by pol.rnd) and 1 point otherwise.
ThornsTriggers(lvl, pol) == IF lvl * 15 >= 100 THEN TRUE ELSE pol.rnd
RECURSIVE Thorns(_, _, _)
Thorns(s, i, pol) ==
    IF i > 3 THEN s
    ELSE LET it == s.armour[i]
             d == IF ThornsTriggers(it.thorns, pol) THEN 3 ELSE 1
             s1 == IF it.thorns > 0
                   THEN [damageItemHook(s, d, pol) EXCEPT !.armour[i] = damageItemStack(s, it, d, pol)]
                   ELSE s
         IN Thorns(s1, i + 1, pol)

\* Player.RemoveEffect
RemoveEffect(s, k) == EffectsRemove(s, k)

\* Number of non-empty stacks in the player's inventories.
CountStacks(s) ==
    Cardinality({i \in ArmourSlots : ~Empty(s.armour[i])}) + (IF Empty(s.held) THEN 0 ELSE 1)

\* Player.kill
kill(s, src, pol) ==
    Then(StopSprinting(StopSneaking(addHealth(s, -s.maxHealth), pol), pol), LAMBDA s2 :
    Then([s2 EXCEPT !.items = @ + CountStacks(s2),
                    !.held = EmptyStack,
                    !.armour = [i \in ArmourSlots |-> EmptyStack],
                    !.effects = NoEffects, !.effectTicks = NoEffects], LAMBDA s3 :
    [Hook(s3, pol, "HandleDeath") EXCEPT !.deathTimers = @ + 1]))

\* The guard of Hurt and KnockBack: the player is dead or its game mode
\* does not allow taking damage.
Invulnerable_DeadOnly(s) == Dead(s)
Invulnerable(s) == Dead(s) \/ ~AllowsTakingDamage(s.gameMode)
\* The fire-resistance guard of Hurt.
FireNegated_Never(s, src) == FALSE
FireNegated(s, src) == HasEffect(s, "fireResistance") /\ FireSource(src)
\* The vulnerable flag Hurt returns for a negative amount.
NegativeVulnerable_False == FALSE
NegativeVulnerable == TRUE
\* The absorption step of Hurt for final damage n and absorption a: the
\* absorption left and the damage left for the real health.
AbsorptionLeft(n, a) == IF n > a THEN 0 ELSE a - n
AbsorbedRemainder_Full(n, a) == n
AbsorbedRemainder(n, a) == IF n > a THEN n - a ELSE 0

\* Player.Hurt
\* Player.Hurt: the guards at its entry.
Hurt_guard(s, src) == Invulnerable(s) \/ FireNegated(s, src)
\* Player.Hurt from the hurt hook to the attack immunity: the state, with
\* the values Hurt will return, and whether the test of Dead() that follows
\* was reached.
Hurt_inflict(s, dmg0, src, pol) ==
         Then(HookWith(s, pol, "HandleHurt", <<src.kind, dmg0>>), LAMBDA s1 :
         Then(Rewritten(s, pol, dmg0), LAMBDA dmg :
         IF ~CtxContinue(Cancelled(s, pol, "HandleHurt"))
         THEN [s |-> Ret(s1, <<0, FALSE>>), reached |-> FALSE]
         ELSE IF dmg < 0 THEN [s |-> Ret(s1, <<0, NegativeVulnerable>>), reached |-> FALSE]
         ELSE Then(IF ReducedByArmour(src) THEN Exhaust(s1, EXH \div 10, pol) ELSE s1, LAMBDA s2 :
              Then(FinalDamageFrom(s2, dmg, src, pol), LAMBDA f :
              LET s3 == f.s
                  n == f.dmg
                  a == f.s.absorptionHealth
                  absorb == f.s.absorptionHealth > 0 /\ Absorbs(src)
                  finalDamage == IF absorb THEN AbsorbedRemainder(n, a) ELSE n
              IN Then(IF absorb
                      THEN IF n > a
                           THEN EffectsRemove(SetAbsorption(s3, AbsorptionLeft(n, a)), "absorption")
                           ELSE SetAbsorption(s3, AbsorptionLeft(n, a))
                      ELSE s3, LAMBDA s4 :
                 Then(IF src.kind = "entityAttack" THEN Thorns(s4, 0, pol) ELSE s4, LAMBDA s5 :
                 [s |-> Ret(SetAttackImmunity(addHealth(s5, -finalDamage)), <<n, TRUE>>),
                  reached |-> TRUE]))))))
\* Player.Hurt: the end of the closure.
Hurt_die(s, src, pol) == IF Dead(s) THEN kill(s, src, pol) ELSE s
\* Player.Hurt
Hurt(s, dmg0, src, pol) ==
    IF Hurt_guard(s, src) THEN Ret(s, <<0, FALSE>>)
    ELSE Then(Hurt_inflict(s, dmg0, src, pol), LAMBDA r :
         IF r.reached THEN Ret(Hurt_die(r.s, src, pol), r.s.ret) ELSE r.s)

\* Player.Heal
Heal(s, amount0, pol) ==
    IF Dead(s) \/ amount0 < 0 \/ ~AllowsTakingDamage(s.gameMode) THEN s
    ELSE LET s1 == Hook(s, pol, "HandleHeal")
         IN IF CtxContinue(Cancelled(s, pol, "HandleHeal"))
            THEN addHealth(s1, Rewritten(s, pol, amount0))
            ELSE s1

\* Player.SetMaxHealth
SetMaxHealth(s, v) == HM_SetMaxHealth(s, v)

\* Player.SetVelocity: only a player without a session stores the velocity.
SetVelocity(s, v) == IF ~s.hasSession THEN [s EXCEPT !.vel = v] ELSE Send(s, <<"velocity", v>>)

\* Player.KnockBack, on the x axis: the direction is the sign of the
\* distance to the source, the resistance is in percent.
Sign(x) == IF x > 0 THEN 1 ELSE IF x < 0 THEN -1 ELSE 0
KnockBack(s, srcX, force, height) ==
    IF Invulnerable(s) THEN s
    ELSE LET resistance == KnockBackResistance(s.armour)
             vx == (Sign(s.pos[1] - srcX) * force * (100 - resistance)) \div 100
             vy == (height * (100 - resistance)) \div 100
         IN SetVelocity(s, <<vx, vy>>)

\* Player.SetOnFire, with the duration in ticks, and Player.Extinguish
SetOnFire(s, ticks) == [s EXCEPT !.fireTicks = ticks]
Extinguish(s) == SetOnFire(s, 0)

\* Player.SetVisible
SetVisible(s) ==
    IF ~Visible(s.gameMode) \/ HasEffect(s, "invisibility") THEN s
    ELSE [s EXCEPT !.invisible = FALSE]
\* Player.SetInvisible
SetInvisible(s) == [s EXCEPT !.invisible = TRUE]

\* Player.teleport, Player.Teleport
teleport(s, to) == [s EXCEPT !.pos = to]
Teleport(s, to, pol) ==
    LET s1 == Hook(s, pol, "HandleTeleport")
    IN IF CtxContinue(Cancelled(s, pol, "HandleTeleport")) THEN teleport(s1, to) ELSE s1

\* World.Spawn()
Spawn == <<0, 0>>

\* Player.Respawn
Respawn(s, pol) ==
    IF ~Dead(s) \/ ~s.inWorld \/ ~s.hasSession THEN s
    ELSE Then(Hook(s, pol, "HandleRespawn"), LAMBDA s1 :
         Then(addHealth(s1, s1.maxHealth), LAMBDA s2 :
         Then(Extinguish(sendFood(hm_Reset(s2))), LAMBDA s3 :
         Send(Teleport(SetVisible(s3), Spawn, pol), <<"respawn">>))))

\* Player.StopFlying
StopFlying(s) == [s EXCEPT !.flying = FALSE]

\* Player.SetGameMode: what follows the locked write of the game mode.
SetGameMode_rest(s, previous, mode) ==
    LET s2 == IF ~AllowsFlying(mode) THEN StopFlying(s) ELSE s
    IN IF ~Visible(mode) THEN SetInvisible(s2)
       ELSE IF ~Visible(previous) THEN SetVisible(s2)
       ELSE s2
\* Player.SetGameMode
SetGameMode(s, mode) == SetGameMode_rest([s EXCEPT !.gameMode = mode], s.gameMode, mode)

\* EffectManager.Add through Player.AddEffect: a present effect is
\* overwritten by a higher level.
AddEffect(s, k, lvl, dur) ==
    Then(EffectManager_Add(s, k, lvl, dur), LAMBDA s1 :
    IF s1.hasSession THEN Send(s1, <<"effect", k, s1.effects[k], s1.effectTicks[k]>>) ELSE s1)

\* Player.load: the state restored from saved Data.
load(s, data) ==
    LET s1 == [s EXCEPT !.yaw = data.Yaw, !.pitch = data.Pitch]
        s2 == HM_SetMaxHealth(s1, data.MaxHealth)
        s3 == [s2 EXCEPT !.health = HM_AddHealth(s2.health, s2.maxHealth, data.Health - s2.health)]
        s4 == hm_SetFood(s3, data.Hunger)
        s5 == [s4 EXCEPT !.foodTick = data.FoodTick,
                         !.exhaustionLevel = data.ExhaustionLevel,
                         !.saturationLevel = data.SaturationLevel,
                         !.gameMode = data.GameMode,
                         !.fireTicks = data.FireTicks,
                         !.fallDistance = data.FallDistance]
    IN [s5 EXCEPT !.armour = data.Armour, !.held = data.Held]

\* ------------------------------------------------------------- world
\* Positions are whole cells <<x, y>> (x horizontal, y vertical); the
\* player stands at the horizontal centre of its cell with its feet at
\* the bottom of it. The fall distance is kept in tenths of a block.
FD == 2 * 5
\* world.World.Block: cells without an entry hold air.
Block(s, at) == IF at \in DOMAIN s.blocks THEN s.blocks[at] ELSE "air"
\* world.World.SetBlock: stores the block and re-sends it to the viewers.
SetBlock(s, at, b) == Send([s EXCEPT !.blocks[at] = b], <<"block", at, b>>)
\* Block collaborators: a non-empty model AABB, block.Breakable,
\* block.Container, BreakInfo().Harvestable / Drops, block.BreaksInstantly.
Solid(b) == b \in {"stone", "bedrock", "chest"}
Breakable(b) == b \in {"stone", "chest", "torch"}
Container(b) == b = "chest"
Harvestable(b, st) == b # "stone" \/ st.kind = "pickaxe"
BreakInfoDrops(s, b) == IF Container(b) THEN s.chest + 1 ELSE 1
BreaksInstantly(b, st) == b = "torch"

\* entity.EyePosition and world.Distance, squared.
EyePosition(s) == <<s.pos[1], s.pos[2] + 1>>
Distance2(a, b) == (a[1] - b[1]) * (a[1] - b[1]) + (a[2] - b[2]) * (a[2] - b[2])
\* Player.canReach
canReach(s, at) ==
    IF ~AllowsInteraction(s.gameMode) THEN FALSE
    ELSE IF CreativeInventory(s.gameMode)
         THEN Distance2(EyePosition(s), at) <= 13 * 13 /\ ~Dead(s)
         ELSE Distance2(EyePosition(s), at) <= 7 * 7 /\ ~Dead(s)

\* Player.SwingArm
SwingArm(s) == IF Dead(s) THEN s ELSE Send(s, <<"swing">>)

\* Player.OnGround: a player without a session asks its movement computer.
OnGround(s) == IF ~s.hasSession THEN s.mcOnGround ELSE s.onGround
\* Player.checkOnGround: some block next to the bounding box of the player
\* (one cell high while swimming, two otherwise) has a collision shape
\* that touches it.
checkOnGround(s) ==
    \/ Solid(Block(s, <<s.pos[1], s.pos[2] - 1>>))
    \/ Solid(Block(s, s.pos))
    \/ (~s.swimming /\ Solid(Block(s, <<s.pos[1], s.pos[2] + 1>>)))

\* Player.fall: the damage of a landing after falling
\* dist (tenths), less 3 blocks and the level of a jump boost.
FallDamage(s, dist) == dist - 3 * FD - s.effects["jumpBoost"] * FD
CeilBlocks(tenths) == (tenths + FD - 1) \div FD
fall_AnyPositive(s, dist, pol) ==
    IF FallDamage(s, dist) <= 0 THEN s
    ELSE Hurt(s, CeilBlocks(FallDamage(s, dist)) * HP, Src("fall", 0), pol)
fall(s, dist, pol) ==
    IF 2 * FallDamage(s, dist) < FD THEN s
    ELSE Hurt(s, CeilBlocks(FallDamage(s, dist)) * HP, Src("fall", 0), pol)
\* Player.ResetFallDistance
ResetFallDistance(s) == [s EXCEPT !.fallDistance = 0]
\* Player.updateFallState
updateFallState(s, distanceThisTick, pol) ==
    IF OnGround(s)
    THEN IF s.fallDistance > 0 THEN ResetFallDistance(fall(s, s.fallDistance, pol)) ELSE s
    ELSE IF distanceThisTick < s.fallDistance
         THEN [s EXCEPT !.fallDistance = @ - distanceThisTick]
         ELSE ResetFallDistance(s)

Abs(x) == IF x < 0 THEN -x ELSE x
\* The effect closure of Move.
Move_Continue(s, delta, res, resYaw, resPitch, pol) ==
    Then(Send(Ran(s, "Move", "continue"), <<"movement", res, resYaw, resPitch, OnGround(s)>>),
         LAMBDA s1 :
    Then([s1 EXCEPT !.pos = res, !.yaw = resYaw, !.pitch = resPitch], LAMBDA s2 :
    Then([s2 EXCEPT !.onGround = checkOnGround(s2)], LAMBDA s3 :
    Then(updateFallState(s3, delta[2] * FD, pol), LAMBDA s4 :
    IF s4.swimming THEN Exhaust(s4, (EXH \div 100) * Abs(delta[1]), pol)
    ELSE IF s4.sprinting THEN Exhaust(s4, (EXH \div 10) * Abs(delta[1]), pol)
    ELSE s4))))
Move_Stop_NoTeleport(s, before) == Ran(s, "Move", "stop")
\* The rollback closure of Move.
Move_Stop(s, before) ==
    IF s.hasSession THEN teleport(Send(Ran(s, "Move", "stop"), <<"teleport", before>>), before)
    ELSE Ran(s, "Move", "stop")
\* The disposition on which Move runs its rollback closure.
MoveRollsBack_OnContinue(ctx) == CtxContinue(ctx)
MoveRollsBack(ctx) == CtxStop(ctx)
\* Player.Move
Move(s, delta, deltaYaw, deltaPitch, pol) ==
    IF Dead(s) \/ s.immobile \/ (delta = <<0, 0>> /\ deltaYaw = 0 /\ deltaPitch = 0) THEN s
    ELSE LET res == <<s.pos[1] + delta[1], s.pos[2] + delta[2]>>
             ctx == Cancelled(s, pol, "HandleMove")
         IN Then(Hook(s, pol, "HandleMove"), LAMBDA s1 :
            Then(IF CtxContinue(ctx)
                 THEN Move_Continue(s1, delta, res, s.yaw + deltaYaw, s.pitch + deltaPitch, pol)
                 ELSE s1, LAMBDA s2 :
            IF MoveRollsBack(ctx) THEN Move_Stop(s2, s.pos) ELSE s2))

\* Player.SetSkin
SetSkin(s, sk, pol) ==
    IF Dead(s) THEN s
    ELSE LET ctx == Cancelled(s, pol, "HandleSkinChange")
         IN Then(Hook(s, pol, "HandleSkinChange"), LAMBDA s1 :
            Then(IF CtxContinue(ctx)
                 THEN Send([Ran(s1, "SetSkin", "continue") EXCEPT !.skin = sk], <<"skin", sk>>)
                 ELSE s1, LAMBDA s2 :
            IF CtxStop(ctx)
            THEN Send(Ran(s2, "SetSkin", "stop"), <<"skin", s2.skin>>)
            ELSE s2))

\* Player.drops: the number of stacks dropped; a container is emptied.
drops(s, st, b) ==
    IF Container(b)
    THEN [s |-> [s EXCEPT !.chest = 0],
          n |-> IF Breakable(b) /\ ~CreativeInventory(s.gameMode) /\ Harvestable(b, st)
                THEN BreakInfoDrops(s, b) ELSE s.chest]
    ELSE IF Breakable(b) /\ ~CreativeInventory(s.gameMode)
         THEN [s |-> s, n |-> IF Harvestable(b, st) THEN 1 ELSE 0]
    ELSE [s |-> s, n |-> IF ~CreativeInventory(s.gameMode) THEN 1 ELSE 0]

\* The effect closure of BreakBlock.
BreakBlock_Continue(s, at, b, st, n, pol) ==
    Then(SwingArm(Ran(s, "BreakBlock", "continue")), LAMBDA s1 :
    Then(Send([s1 EXCEPT !.blocks[at] = "air", !.items = @ + n], <<"break", at>>), LAMBDA s2 :
    Then(Exhaust(s2, EXH \div 200, pol), LAMBDA s3 :
    IF ~BreaksInstantly(b, st) /\ st.durable
    THEN [damageItemHook(s3, st.breakDur, pol) EXCEPT
             !.held = damageItemStack(s3, st, st.breakDur, pol)]
    ELSE s3)))
\* The rollback closure of BreakBlock.
BreakBlock_Stop(s, at) == SetBlock(Ran(s, "BreakBlock", "stop"), at, Block(s, at))
\* Player.BreakBlock
BreakBlock(s, at, pol) ==
    IF ~canReach(s, at) \/ ~AllowsEditing(s.gameMode) THEN s
    ELSE IF Block(s, at) = "air" THEN s
    ELSE IF ~Breakable(Block(s, at)) /\ ~CreativeInventory(s.gameMode)
         THEN SetBlock(s, at, Block(s, at))
    ELSE LET ctx == Cancelled(s, pol, "HandleBlockBreak")
             b == Block(s, at)
         IN Then(drops(s, s.held, b), LAMBDA d :
            Then(Hook(d.s, pol, "HandleBlockBreak"), LAMBDA s1 :
            Then(IF CtxContinue(ctx)
                 THEN BreakBlock_Continue(s1, at, b, s.held, d.n, pol)
                 ELSE s1, LAMBDA s2 :
            IF CtxStop(ctx) THEN BreakBlock_Stop(s2, at) ELSE s2)))

\* ----------------------------------------------------------- breaking
\* cube.Pos.Side: the neighbouring position on the given face.
Side(at, face) ==
    IF face = "up" THEN <<at[1], at[2] + 1>>
    ELSE IF face = "down" THEN <<at[1], at[2] - 1>>
    ELSE IF face = "east" THEN <<at[1] + 1, at[2]>>
    ELSE <<at[1] - 1, at[2]>>
\* block.BreakDuration of a block with the item held, in ticks.
BreakDuration(b, st) ==
    IF b = "torch" THEN 0
    ELSE IF b = "stone" THEN (IF st.kind = "pickaxe" THEN 6 ELSE 30)
    ELSE IF b = "chest" THEN 10
    ELSE 1000
\* Player.breakTime. The model world has no liquid and the model's effects
\* hold no haste, mining fatigue or conduit power.
breakTime(s, at) ==
    IF ~OnGround(s) THEN 5 * BreakDuration(Block(s, at), s.held)
    ELSE BreakDuration(Block(s, at), s.held)
AbortBreaking_Silent(s) ==
    IF ~s.breaking THEN s ELSE [s EXCEPT !.breaking = FALSE, !.breakParticleCounter = 0]
\* Player.AbortBreaking
AbortBreaking(s) ==
    IF ~s.breaking THEN s
    ELSE Send([s EXCEPT !.breaking = FALSE, !.breakParticleCounter = 0],
              <<"stopCrack", s.breakingPos>>)
StartBreaking_Continue_Idle(s, at) == s
\* The effect closure of StartBreaking. No block of the model world is
\* punchable.
StartBreaking_Continue(s, at) ==
    Then([s EXCEPT !.breaking = TRUE], LAMBDA s1 :
    IF CreativeInventory(s1.gameMode) THEN s1
    ELSE [Send(SwingArm(s1), <<"startCrack", at, breakTime(s1, at)>>)
             EXCEPT !.lastBreakDuration = breakTime(s1, at)])
\* Player.StartBreaking
StartBreaking(s, at, face, pol) ==
    Then(AbortBreaking(s), LAMBDA s1 :
    IF Block(s1, at) = "air" \/ ~canReach(s1, at) THEN s1
    ELSE IF Block(s1, Side(at, face)) = "fire"
         THEN Send(Send([s1 EXCEPT !.blocks[Side(at, face)] = "air"],
                        <<"break", Side(at, face)>>), <<"sound", "fireExtinguish">>)
    ELSE IF s1.held.kind = "sword" /\ CreativeInventory(s1.gameMode) THEN s1
    ELSE Then([Hook(s1, pol, "HandleStartBreak") EXCEPT !.breakingPos = at], LAMBDA s2 :
         IF CtxContinue(Cancelled(s, pol, "HandleStartBreak"))
         THEN StartBreaking_Continue(s2, at) ELSE s2))
FinishBreaking_Always(s, pol) == BreakBlock(AbortBreaking(s), s.breakingPos, pol)
\* Player.FinishBreaking
FinishBreaking(s, pol) ==
    IF ~s.breaking THEN SetBlock(s, s.breakingPos, Block(s, s.breakingPos))
    ELSE BreakBlock(AbortBreaking(s), s.breakingPos, pol)
\* Player.ContinueBreaking
ContinueBreaking(s, face) ==
    IF ~s.breaking THEN s
    ELSE Then(Send(SwingArm(s), <<"particle", s.breakingPos, face>>), LAMBDA s1 :
         Then([s1 EXCEPT !.breakParticleCounter = @ + 1], LAMBDA s2 :
         Then(IF s2.breakParticleCounter % 5 = 0
              THEN Send(s2, <<"sound", "blockBreaking">>) ELSE s2, LAMBDA s3 :
         IF breakTime(s3, s3.breakingPos) # s3.lastBreakDuration
         THEN [Send(s3, <<"continueCrack", s3.breakingPos, breakTime(s3, s3.breakingPos)>>)
                  EXCEPT !.lastBreakDuration = breakTime(s3, s3.breakingPos)]
         ELSE s3)))

\* --------------------------------------------------------------- tick
\* Player.StopSwimming
StopSwimming(s) == IF s.swimming THEN Send([s EXCEPT !.swimming = FALSE], <<"state">>) ELSE s
\* Player.regenerate
regenerate(s, pol) ==
    IF s.health = s.maxHealth THEN s ELSE Exhaust(Heal(s, HP, pol), 6 * EXH, pol)
\* world.Difficulty.StarvationHealthLimit: the health above which
\* starvation damage is dealt.
StarvationHealthLimit(d) ==
    IF d = "peaceful" THEN 10000 * HP
    ELSE IF d = "easy" THEN 10 * HP
    ELSE IF d = "normal" THEN 2 * HP
    ELSE 0
\* Player.starve
starve_Always(s, pol) == Hurt(s, HP, Src("starvation", 0), pol)
starve(s, pol) ==
    IF s.health > StarvationHealthLimit(s.difficulty)
    THEN Hurt(s, HP, Src("starvation", 0), pol) ELSE s
\* Player.tickFood, statement by statement: the increment of the counter,
\* the branch taken with the reset of the counter, and the evaluation of
\* the branch.
tickFood_inc(s) == [s EXCEPT !.foodTick = @ + 1]
tickFood_branch(s) ==
    IF s.foodTick = 10 /\ (hm_canQuicklyRegenerate(s) \/ FoodRegenerates(s.difficulty))
    THEN "quick"
    ELSE IF s.foodTick = 80 THEN "slow" ELSE "none"
tickFood_reset(s) == IF tickFood_branch(s) # "none" THEN [s EXCEPT !.foodTick = 0] ELSE s
tickFood_eval(s, branch, pol) ==
    IF branch = "quick"
    THEN Then(regenerate(s, pol), LAMBDA s2 :
         IF FoodRegenerates(s2.difficulty) THEN AddFood(s2, 1) ELSE s2)
    ELSE IF branch = "slow"
         THEN IF hm_canRegenerate(s) THEN regenerate(s, pol)
              ELSE IF hm_starving(s) THEN starve(s, pol)
              ELSE s
    ELSE s
\* Player.tickFood
tickFood(s, pol) ==
    Then(tickFood_inc(s), LAMBDA s1 :
    tickFood_eval(tickFood_reset(s1), tickFood_branch(s1), pol))
\* ---------------------------------------------------------- cooldowns
\* The cooldown table maps an item (its hash) to the time its cooldown
\* expires; time.Now() is the world clock `now`.
Remove(f, k) == [i \in DOMAIN f \ {k} |-> f[i]]
\* time.Time.After
After(t, u) == t > u
HasCooldown_KeepsStale(s, it) ==
    Ret(s, <<it \in DOMAIN s.cooldowns /\ ~After(s.now, s.cooldowns[it])>>)
\* Player.HasCooldown
HasCooldown(s, it) ==
    IF it \notin DOMAIN s.cooldowns THEN Ret(s, <<FALSE>>)
    ELSE IF After(s.now, s.cooldowns[it])
         THEN Ret([s EXCEPT !.cooldowns = Remove(@, it)], <<FALSE>>)
    ELSE Ret(s, <<TRUE>>)
\* Player.SetCooldown
SetCooldown(s, it, cooldown) ==
    [s EXCEPT !.cooldowns = (it :> (s.now + cooldown)) @@ @]
\* The cooldown part of Tick.
tickCooldowns(s) ==
    [s EXCEPT !.cooldowns =
        [i \in {j \in DOMAIN s.cooldowns : ~After(s.now, s.cooldowns[j])} |-> s.cooldowns[i]]]

\* World.Range()[0]: the lowest height of the world.
WorldMinY == -3
\* What a tick finds outside the player: the tick number, whether an
\* immunity deadline set earlier is still ahead, whether it rains at the
\* player, and the movement its movement computer returns.
TickEnv(current, immune, raining, delta, velocity, mcGround) ==
    [current |-> current, immune |-> immune, raining |-> raining, delta |-> delta,
     vel |-> velocity, mcGround |-> mcGround]
\* Player.AttackImmune during a tick that began in state s0: a deadline
\* set during this tick is still ahead, an older one may have passed.
AttackImmune(s, s0, env) == s.immunity > s0.immunity \/ (s.immunity > 0 /\ env.immune)
\* The fire part of Tick.
tickFire(s, s0, env, pol) ==
    IF s.fireTicks > 0
    THEN Then([s EXCEPT !.fireTicks = @ - 1], LAMBDA s1 :
         Then(IF ~AllowsTakingDamage(s1.gameMode) \/ s1.fireTicks <= 0 \/ env.raining
              THEN Extinguish(s1) ELSE s1, LAMBDA s2 :
         IF s2.fireTicks % 20 = 0 /\ ~AttackImmune(s2, s0, env)
         THEN Hurt(s2, HP, Src("fireTick", 0), pol) ELSE s2))
    ELSE s
\* Player.Tick. The model world has no liquid; item use is not part of the
\* state.
Tick(s, env, pol) ==
    IF Dead(s) THEN s
    ELSE Then(StopSwimming(s), LAMBDA s1 :
         Then([s1 EXCEPT !.onGround = checkOnGround(s1)], LAMBDA s2 :
         Then(EffectManager_Tick(tickFood(s2, pol)), LAMBDA s3 :
         Then(IF s3.pos[2] < WorldMinY /\ AllowsTakingDamage(s3.gameMode) /\ env.current % 10 = 0
              THEN Hurt(s3, 4 * HP, Src("void", 0), pol) ELSE s3, LAMBDA s4 :
         Then(tickCooldowns(tickFire(s4, s, env, pol)), LAMBDA s5 :
         IF ~s5.hasSession /\ ~s5.immobile
         THEN Move([s5 EXCEPT !.vel = env.vel, !.mcOnGround = env.mcGround],
                   env.delta, 0, 0, pol)
         ELSE s5)))))

\* ------------------------------------------------------------- riding
\* entity.Rideable: the rideables of the world and their seat positions.
\* The player is the rider "p"; `others` holds the seat position and the
\* riding reference of the other riders.
Rideables == {"boat", "cart"}
SeatPositions(e) == IF e = "boat" THEN <<11, 12>> ELSE <<21>>
Riders(s, e) == s.riders[e]
AddRider(s, e, r) == [s EXCEPT !.riders[e] = Append(@, r)]
RemoveRider(s, e, r) ==
    [s EXCEPT !.riders[e] = SelectSeq(@, LAMBDA x : x # r)]
SeatPositionOf(s, r) == IF r = "p" THEN s.seatPosition ELSE s.others[r].seatPosition
StoreSeatPosition(s, r, v) ==
    IF r = "p" THEN [s EXCEPT !.seatPosition = v] ELSE [s EXCEPT !.others[r].seatPosition = v]
\* Player.setRiding
setRiding(s, r, e) ==
    IF r = "p" THEN [s EXCEPT !.riding = e] ELSE [s EXCEPT !.others[r].riding = e]
RidingOf(s, r) == IF r = "p" THEN s.riding ELSE s.others[r].riding
\* Player.seat: the index of the rider in Riders(), -1 if it is not in it.
seat(s, e, r) ==
    IF \E i \in 1 .. Len(Riders(s, e)) : Riders(s, e)[i] = r
    THEN (CHOOSE i \in 1 .. Len(Riders(s, e)) :
             Riders(s, e)[i] = r /\ \A j \in 1 .. i - 1 : Riders(s, e)[j] # r) - 1
    ELSE -1
\* Player.RidingEntity
RidingEntity(s, r) ==
    IF RidingOf(s, r) # "none"
    THEN [e |-> RidingOf(s, r), seat |-> seat(s, RidingOf(s, r), r)]
    ELSE [e |-> "none", seat |-> -1]
\* Player.checkSeats: indexing SeatPositions() past its end faults.
checkSeats(s, r, e) ==
    LET i == seat(s, e, r)
    IN IF i = -1 THEN s
       ELSE IF i + 1 > Len(SeatPositions(e)) THEN Send(s, <<"panic", "checkSeats", r>>)
       ELSE IF SeatPositions(e)[i + 1] # SeatPositionOf(s, r)
            THEN Send(StoreSeatPosition(s, r, SeatPositions(e)[i + 1]), <<"mount", r, e, i = 0>>)
            ELSE s
MountEntity_Continue_FirstSeat(s, r, e) ==
    IF seat(s, e, r) = -1
    THEN Send(StoreSeatPosition(setRiding(AddRider(s, e, r), r, e), r, SeatPositions(e)[1]),
              <<"mount", r, e, TRUE>>)
    ELSE checkSeats(s, r, e)
\* The effect closure of MountEntity, for the rider r.
MountEntity_Continue(s, r, e) ==
    IF seat(s, e, r) = -1
    THEN Then(setRiding(AddRider(s, e, r), r, e), LAMBDA s1 :
         IF Len(SeatPositions(e)) >= Len(Riders(s1, e))
         THEN Send(StoreSeatPosition(s1, r, SeatPositions(e)[Len(Riders(s1, e))]),
                   <<"mount", r, e, Len(Riders(s1, e)) - 1 = 0>>)
         ELSE s1)
    ELSE checkSeats(s, r, e)
\* Player.MountEntity
MountEntity(s, e, pol) ==
    Then(Hook(s, pol, "HandleMount"), LAMBDA s1 :
    IF CtxContinue(Cancelled(s, pol, "HandleMount"))
    THEN MountEntity_Continue(Ran(s1, "MountEntity", "continue"), "p", e)
    ELSE s1)
\* MountEntity of the remaining riders of e, in the order of Riders():
\* the other riders have the no-op handler, which continues.
RECURSIVE Remount(_, _, _)
Remount(s, e, i) ==
    IF i > Len(Riders(s, e)) THEN s
    ELSE Remount(MountEntity_Continue(s, Riders(s, e)[i], e), e, i + 1)
\* The effect closure of DismountEntity.
DismountEntity_Continue(s, e) ==
    Then(setRiding(RemoveRider(Ran(s, "DismountEntity", "continue"), e, "p"), "p", "none"),
         LAMBDA s1 :
    Remount(Send(s1, <<"dismount", e>>), e, 1))
\* The rollback closure of DismountEntity: it calls ViewEntityMount on the
\* session field itself, which is nil for a player without a session.
DismountEntity_Stop(s, e, i) ==
    IF s.hasSession
    THEN Send(Ran(s, "DismountEntity", "stop"), <<"mount", "p", e, i - 1 = 0>>)
    ELSE Send(Ran(s, "DismountEntity", "stop"), <<"panic", "nil session">>)
\* Player.DismountEntity
DismountEntity(s, pol) ==
    LET r == RidingEntity(s, "p")
        ctx == Cancelled(s, pol, "HandleDismount")
    IN IF r.e = "none" THEN s
       ELSE Then(Hook(s, pol, "HandleDismount"), LAMBDA s1 :
            Then(IF CtxStop(ctx) THEN DismountEntity_Stop(s1, r.e, r.seat) ELSE s1, LAMBDA s2 :
            IF CtxContinue(ctx) THEN DismountEntity_Continue(s2, r.e) ELSE s2))

\* ------------------------------------------------------------ placing
\* *item.UseContext: nil, or a context with its IgnoreAABB and CountSub.
NilContext == [nil |-> TRUE]
UseContext(ignoreAABB, countSub) == [IgnoreAABB |-> ignoreAABB, CountSub |-> countSub]
\* cube.Pos.Neighbours: the neighbouring positions inside the world range.
Neighbours(at) ==
    SelectSeq(<<Side(at, "up"), Side(at, "down"), Side(at, "east"), Side(at, "west")>>,
              LAMBDA n : n[2] >= WorldMinY)
\* World.PlaceBlock
World_PlaceBlock(s, at, b) == Send([s EXCEPT !.blocks = (at :> b) @@ @], <<"block", at, b>>)
\* Player.obstructedPos: whether an entity that is no item, here the player
\* itself, two cells high, intersects a box of the model of the block.
obstructedPos(s, at, b) ==
    Solid(b) /\ at \in {s.pos, <<s.pos[1], s.pos[2] + 1>>}
\* The deferred function of placeBlock: it re-sends the neighbours of the
\* position and the position itself.
RECURSIVE ResendAll(_, _, _)
ResendAll(s, cells, i) ==
    IF i > Len(cells) THEN s
    ELSE ResendAll(SetBlock(s, cells[i], Block(s, cells[i])), cells, i + 1)
placeBlock_Silent(s, at) == s
placeBlock_Resend(s, at) == ResendAll(s, Append(Neighbours(at), at), 1)
\* Player.placeBlock: the state and whether the block was placed.
placeBlock(s, at, b, ignoreAABB, pol) ==
    IF ~canReach(s, at) \/ ~AllowsEditing(s.gameMode)
    THEN Ret(placeBlock_Resend(s, at), <<FALSE>>)
    ELSE IF ~ignoreAABB /\ obstructedPos(s, at, b)
    THEN Ret(placeBlock_Resend(s, at), <<FALSE>>)
    ELSE Then(Hook(s, pol, "HandleBlockPlace"), LAMBDA s1 :
         IF CtxContinue(Cancelled(s, pol, "HandleBlockPlace"))
         THEN Ret(SwingArm(Send(World_PlaceBlock(s1, at, b), <<"sound", "place", at>>)),
                  <<TRUE>>)
         ELSE Ret(placeBlock_Resend(s1, at), <<FALSE>>))
\* Player.PlaceBlock: ctx.IgnoreAABB is evaluated before placeBlock is
\* called, which faults on a nil ctx. The use context is returned as the
\* call leaves it.
PlaceBlock(s, at, b, ctx, pol) ==
    IF IsNil(ctx) THEN Ret(Send(s, <<"panic", "nil pointer dereference">>), <<ctx>>)
    ELSE Then(placeBlock(s, at, b, ctx.IgnoreAABB, pol), LAMBDA s1 :
         Ret(s1, <<IF s1.ret[1] THEN [ctx EXCEPT !.CountSub = @ + 1] ELSE ctx>>))

\* ----------------------------------------------------------- teardown
\* Player.close: the handler and the session are swapped out under their
\* locks, the handler that was installed is told of the quit, and a player
\* without a session is removed from the world while the connection of a
\* player with one is closed.
close_leave(s, pol) == DismountEntity(IF Dead(s) THEN Respawn(s, pol) ELSE s, pol)
\* Player.close from the quit notification of the handler hd it swapped out.
close_quit(s, hd) ==
    Then(HookWith(s, [cancel |-> hd.cancel], "HandleQuit", <<hd>>), LAMBDA s3 :
    Then([s3 EXCEPT !.hasSession = FALSE, !.closed = TRUE], LAMBDA s4 :
    IF ~s4.inWorld THEN s4
    ELSE IF ~s3.hasSession THEN [s4 EXCEPT !.inWorld = FALSE]
    ELSE Send(s4, <<"close connection">>)))
close_KeepsHandler(s, pol) ==
    Then(close_leave(s, pol), LAMBDA s2 : close_quit(s2, s2.h))
close(s, pol) ==
    Then(close_leave(s, pol), LAMBDA s2 : close_quit([s2 EXCEPT !.h = NopHandler], s2.h))
\* session.Disconnect of p.session(): the no-op session sends nothing.
session_Disconnect(s, msg) == IF s.hasSession THEN Send(s, <<"disconnect", msg>>) ELSE s
\* Player.Close
Close(s, pol) ==
    IF ~s.inWorld THEN s ELSE close(session_Disconnect(s, "Connection closed."), pol)
\* Player.Disconnect
Disconnect(s, msg, pol) == close(session_Disconnect(s, msg), pol)
\* The function kill hands to time.AfterFunc, run once per death.
kill_AfterFunc(s, pol) ==
    Then(DismountEntity([s EXCEPT !.deathTimers = @ - 1], pol), LAMBDA s1 :
    IF ~s1.hasSession THEN Close(s1, pol)
    ELSE IF Dead(s1) THEN [SetInvisible(s1) EXCEPT !.pos = Spawn]
    ELSE s1)

\* ------------------------------------------------- locks and goroutines
\* The locks of the player (hunger.mu is the lock of its hungerManager) and
\* the goroutines that call into it: the one that handles the packets of
\* the session and the one that ticks the world. A lock is held by a set of
\* <<goroutine, mode>> pairs, "w" for Lock and "r" for RLock.
Locks == {"gameModeMu", "skinMu", "sMutex", "hMutex", "hunger.mu", "ridingMu", "cooldownMu"}
Threads == {"session", "tick"}
HungerFields == {"foodLevel", "saturationLevel", "exhaustionLevel", "foodTick"}
\* A goroutine: the statement it is at, the method it is in with its
\* argument, and its local variables (the handler it read, the fields it
\* collected).
IdleThread == [pc |-> "idle", m |-> "none", arg |-> <<>>, h |-> NopHandler, snap |-> <<>>]
Held(s, t) == {l \in Locks : \E x \in s.mu[l] : x[1] = t}
\* What goroutine t does in a step, with the locks it holds while doing it:
\* "acquire" of a lock, "read" / "write" of a field, "call" of a collaborator.
Event(s, t, kind, what) ==
    [s EXCEPT !.acc = Append(@, [t |-> t, kind |-> kind, what |-> what, held |-> Held(s, t)])]
\* sync.RWMutex
CanLock(s, l) == s.mu[l] = {}
CanRLock(s, l) == \A x \in s.mu[l] : x[2] = "r"
MuLock(s, t, l) == [Event(s, t, "acquire", l) EXCEPT !.mu[l] = @ \cup {<<t, "w">>}]
MuRLock(s, t, l) == [Event(s, t, "acquire", l) EXCEPT !.mu[l] = @ \cup {<<t, "r">>}]
MuUnlock(s, t, l) == [s EXCEPT !.mu[l] = {x \in @ : x[1] # t}]
Goto(s, t, pc) == [s EXCEPT !.th[t].pc = pc]
Return(s, t, v) == Ret(Goto(s, t, "idle"), v)

\* The hunger fields a save records.
Snapshot(v) ==
    [Hunger |-> v[1], FoodTick |-> v[2], ExhaustionLevel |-> v[3], SaturationLevel |-> v[4],
     GameMode |-> v[5]]
\* Player.Data, statement by statement, run by goroutine t. The hunger
\* lock is read-locked for the whole body; GameMode() locks gameModeMu.
Data_step(s, t) ==
    LET pc == s.th[t].pc
    IN IF pc = "Data0" THEN Goto(MuRLock(s, t, "hunger.mu"), t, "Data1")
       ELSE IF pc = "Data1"
            THEN Goto([Event(Event(s, t, "call", "HealthManager"), t, "read", "foodLevel")
                          EXCEPT !.th[t].snap = <<s.foodLevel>>], t, "Data2")
       ELSE IF pc = "Data2"
            THEN Goto([Event(s, t, "read", "foodTick")
                          EXCEPT !.th[t].snap = Append(@, s.foodTick)], t, "Data3")
       ELSE IF pc = "Data3"
            THEN Goto([Event(Event(s, t, "read", "exhaustionLevel"), t, "read", "saturationLevel")
                          EXCEPT !.th[t].snap = @ \o <<s.exhaustionLevel, s.saturationLevel>>],
                      t, "Data4")
       ELSE IF pc = "Data4" THEN Goto(MuRLock(s, t, "gameModeMu"), t, "Data5")
       ELSE IF pc = "Data5"
            THEN Goto(MuUnlock([Event(s, t, "read", "gameMode")
                                   EXCEPT !.th[t].snap = Append(@, s.gameMode)], t, "gameModeMu"),
                      t, "Data6")
       ELSE Return(MuUnlock(Event(s, t, "call", "Inventory"), t, "hunger.mu"), t,
                   <<Snapshot(s.th[t].snap)>>)
\* Player.tickFood, statement by statement, run by goroutine t. The counter
\* is incremented, compared and reset on the field itself; the
\* evaluation goes through the accessors of the hunger manager, the health
\* manager and the session, and is one step.
tickFood_step(s, t) ==
    LET pc == s.th[t].pc
    IN IF pc = "tickFood0"
       THEN Goto(tickFood_inc(Event(s, t, "write", "foodTick")), t, "tickFood1")
       ELSE IF pc = "tickFood1"
            THEN IF tickFood_branch(s) = "none"
                 THEN Return(Event(s, t, "read", "foodTick"), t, <<>>)
                 ELSE Goto([tickFood_reset(Event(Event(s, t, "read", "foodTick"),
                                                 t, "write", "foodTick"))
                               EXCEPT !.th[t].arg = <<tickFood_branch(s)>>], t, "tickFood2")
       ELSE Return(tickFood_eval(s, s.th[t].arg[1], Pol(s, FALSE)), t, <<>>)

\* Player.session: the session field is read under sMutex.
session_read(s, t) == Event(MuUnlock(Event(MuRLock(s, t, "sMutex"), t, "read", "s"), t, "sMutex"),
                            t, "call", "Session")
\* Player.SetFood: hungerManager.SetFood locks the hunger lock itself;
\* sendFood read-locks it and calls session() and SendFood under it.
SetFood_step(s, t) ==
    LET pc == s.th[t].pc
    IN IF pc = "SetFood0"
       THEN Goto(MuUnlock(hm_SetFood(Event(MuLock(s, t, "hunger.mu"), t, "write", "foodLevel"),
                                     s.th[t].arg[1]), t, "hunger.mu"), t, "SetFood1")
       ELSE IF pc = "SetFood1" THEN Goto(MuRLock(s, t, "hunger.mu"), t, "SetFood2")
       ELSE IF pc = "SetFood2" THEN Goto(session_read(s, t), t, "SetFood3")
       ELSE Return(MuUnlock(sendFood(Event(Event(Event(s, t, "read", "foodLevel"),
                                                 t, "read", "saturationLevel"),
                                           t, "read", "exhaustionLevel")), t, "hunger.mu"),
                   t, <<>>)
SetGameMode_step_Deferred(s, t) ==
    LET pc == s.th[t].pc
    IN IF pc = "SetGameMode0" THEN Goto(MuLock(s, t, "gameModeMu"), t, "SetGameMode1")
       ELSE IF pc = "SetGameMode1"
            THEN Goto([Event(s, t, "write", "gameMode")
                          EXCEPT !.gameMode = s.th[t].arg[1],
                                 !.th[t].arg = <<s.th[t].arg[1], s.gameMode>>], t, "SetGameMode2")
       ELSE Return(MuUnlock(SetGameMode_rest(session_read(s, t), s.th[t].arg[2], s.th[t].arg[1]),
                            t, "gameModeMu"), t, <<>>)
\* Player.SetGameMode
SetGameMode_step(s, t) ==
    LET pc == s.th[t].pc
    IN IF pc = "SetGameMode0" THEN Goto(MuLock(s, t, "gameModeMu"), t, "SetGameMode1")
       ELSE IF pc = "SetGameMode1"
            THEN Goto(MuUnlock([Event(s, t, "write", "gameMode")
                                   EXCEPT !.gameMode = s.th[t].arg[1],
                                          !.th[t].arg = <<s.th[t].arg[1], s.gameMode>>],
                               t, "gameModeMu"), t, "SetGameMode2")
       ELSE Return(SetGameMode_rest(session_read(s, t), s.th[t].arg[2], s.th[t].arg[1]), t, <<>>)
\* Player.StartFlying: GameMode() reads the mode under the game-mode lock
\* and releases it before the CAS on the flying flag.
StartFlying_step(s, t) ==
    LET pc == s.th[t].pc
    IN IF pc = "StartFlying0"
       THEN Then(MuUnlock(Event(MuRLock(s, t, "gameModeMu"), t, "read", "gameMode"),
                          t, "gameModeMu"), LAMBDA s1 :
            IF ~AllowsFlying(s.gameMode) THEN Return(s1, t, <<>>) ELSE Goto(s1, t, "StartFlying1"))
       ELSE IF pc = "StartFlying1"
            THEN IF s.flying THEN Return(s, t, <<>>)
                 ELSE Goto([Event(s, t, "write", "flying") EXCEPT !.flying = TRUE],
                           t, "StartFlying2")
       ELSE IF pc = "StartFlying2" THEN Goto(session_read(s, t), t, "StartFlying3")
       ELSE Return(Send(MuUnlock(Event(MuRLock(s, t, "gameModeMu"), t, "read", "gameMode"),
                                 t, "gameModeMu"), <<"gameMode", s.gameMode>>), t, <<>>)
\* Player.Handle
Handle_step(s, t) ==
    IF s.th[t].pc = "Handle0" THEN Goto(MuLock(s, t, "hMutex"), t, "Handle1")
    ELSE Return(MuUnlock(Handle(Event(s, t, "write", "h"), s.th[t].arg[1]), t, "hMutex"), t, <<>>)
\* Player.handler: the handler field is read under hMutex into a local.
handler_read(s, t) ==
    [MuUnlock(Event(MuRLock(s, t, "hMutex"), t, "read", "h"), t, "hMutex") EXCEPT !.th[t].h = s.h]
\* The policy of the handler goroutine t read.
PolOf(s, t) == [cancel |-> s.th[t].h.cancel, amount |-> s.th[t].h.amount, rnd |-> FALSE]
\* Player.Food: hungerManager.Food reads the level under the hunger lock.
Food_step(s, t) ==
    Return(MuUnlock(Event(MuRLock(s, t, "hunger.mu"), t, "read", "foodLevel"), t, "hunger.mu"),
           t, <<s.foodLevel>>)
\* Player.Exhaust, statement by statement: each hungerManager method locks
\* the hunger lock for itself. snap holds before and after.
Exhaust_step(s, t) ==
    LET pc == s.th[t].pc
        locked(l) == Event(MuRLock(s, t, l), t, "read", IF l = "gameModeMu" THEN "gameMode"
                                                           ELSE "foodLevel")
        written == Event(MuLock(s, t, "hunger.mu"), t, "write", "foodLevel")
    IN IF pc = "Exhaust0"
       THEN IF ~AllowsTakingDamage(s.gameMode)
            THEN Return(MuUnlock(locked("gameModeMu"), t, "gameModeMu"), t, <<>>)
            ELSE Goto(MuUnlock(locked("gameModeMu"), t, "gameModeMu"), t, "Exhaust1")
       ELSE IF pc = "Exhaust1"
            THEN Goto([MuUnlock(locked("hunger.mu"), t, "hunger.mu")
                          EXCEPT !.th[t].snap = <<s.foodLevel>>],
                      t, IF FoodRegenerates(s.difficulty) THEN "Exhaust3" ELSE "Exhaust2")
       ELSE IF pc = "Exhaust2"
            THEN Goto(MuUnlock(hm_exhaust(written, s.th[t].arg[1]), t, "hunger.mu"), t, "Exhaust3")
       ELSE IF pc = "Exhaust3"
            THEN Goto([MuUnlock(locked("hunger.mu"), t, "hunger.mu")
                          EXCEPT !.th[t].snap = Append(@, s.foodLevel)],
                      t, IF s.th[t].snap[1] # s.foodLevel THEN "Exhaust4" ELSE "Exhaust7")
       ELSE IF pc = "Exhaust4"
            THEN Goto(MuUnlock(hm_SetFood(written, s.th[t].snap[1]), t, "hunger.mu"), t, "Exhaust5")
       ELSE IF pc = "Exhaust5"
            THEN Then(handler_read(s, t), LAMBDA s1 :
                 Goto(HookWith(Event(s1, t, "call", "Handler"), PolOf(s1, t), "HandleFoodLoss",
                               s.th[t].snap),
                      t, IF CtxContinue(Cancelled(s1, PolOf(s1, t), "HandleFoodLoss"))
                         THEN "Exhaust6" ELSE "Exhaust7"))
       ELSE IF pc = "Exhaust6"
            THEN Then(MuUnlock(hm_SetFood(written, s.th[t].snap[2]), t, "hunger.mu"), LAMBDA s1 :
                 Goto(IF s.th[t].snap[1] >= 7 /\ s.th[t].snap[2] <= 6
                      THEN StopSprinting(s1, PolOf(s1, t)) ELSE s1, t, "Exhaust7"))
       ELSE Return(MuUnlock(sendFood(session_read(locked("hunger.mu"), t)), t, "hunger.mu"),
                   t, <<>>)
\* Player.SetSkin: a method call on a nil Handler faults.
SetSkin_step(s, t) ==
    LET pc == s.th[t].pc
        sk == s.th[t].arg[1]
    IN IF pc = "SetSkin0"
       THEN IF Dead(s) THEN Return(s, t, <<>>) ELSE Goto(handler_read(s, t), t, "SetSkin1")
       ELSE IF pc = "SetSkin1"
            THEN IF IsNil(s.th[t].h)
                 THEN Return(Send(s, <<"panic", "nil handler">>), t, <<>>)
                 ELSE Goto(HookWith(Event(s, t, "call", "Handler"), PolOf(s, t),
                                    "HandleSkinChange", <<s.th[t].h>>),
                           t, IF CtxContinue(Cancelled(s, PolOf(s, t), "HandleSkinChange"))
                              THEN "SetSkin2" ELSE "SetSkin4")
       ELSE IF pc = "SetSkin2" THEN Goto(MuLock(s, t, "skinMu"), t, "SetSkin3")
       ELSE IF pc = "SetSkin3"
            THEN Return(Send(Ran(MuUnlock([Event(s, t, "write", "skin") EXCEPT !.skin = sk],
                                          t, "skinMu"), "SetSkin", "continue"),
                             <<"skin", sk>>), t, <<>>)
       ELSE Return(Send(Ran(session_read(s, t), "SetSkin", "stop"), <<"skin", s.skin>>), t, <<>>)
\* Player.Close: the handler is swapped out under hMutex and the handler
\* that was installed is told of the quit after the lock is released.
Close_step(s, t) ==
    LET pc == s.th[t].pc
    IN IF pc = "Close0"
       THEN IF ~s.inWorld THEN Return(s, t, <<>>)
            ELSE Goto(close_leave(session_Disconnect(s, "Connection closed."), Pol(s, FALSE)),
                      t, "Close1")
       ELSE IF pc = "Close1"
            THEN Goto([MuUnlock(Event(MuLock(s, t, "hMutex"), t, "write", "h"), t, "hMutex")
                          EXCEPT !.h = NopHandler, !.th[t].h = s.h], t, "Close2")
       ELSE Return(close_quit(Event(s, t, "call", "Handler"), s.th[t].h), t, <<>>)
\* Player.Hurt: the guards, the closure up to the attack immunity, and the
\* test of Dead() with kill; no lock is held from one to the next. The
\* values to return are kept in snap.
Hurt_step(s, t) ==
    LET pc == s.th[t].pc
        dmg == s.th[t].arg[1]
        src == s.th[t].arg[2]
    IN IF pc = "Hurt0"
       THEN IF Hurt_guard(s, src) THEN Return(s, t, <<0, FALSE>>) ELSE Goto(s, t, "Hurt1")
       ELSE IF pc = "Hurt1"
            THEN Then(Hurt_inflict(s, dmg, src, Pol(s, FALSE)), LAMBDA r :
                 IF r.reached THEN Goto([r.s EXCEPT !.th[t].snap = r.s.ret], t, "Hurt2")
                 ELSE Return(r.s, t, r.s.ret))
       ELSE Return(Hurt_die(s, src, Pol(s, FALSE)), t, s.th[t].snap)
\* Player.RidingEntity: Riders() is called with ridingMu held.
RidingEntity_step(s, t) ==
    Then(Event(MuLock(s, t, "ridingMu"), t, "read", "riding"), LAMBDA s1 :
    Return(MuUnlock(IF s.riding # "none" THEN Event(s1, t, "call", "Rideable") ELSE s1,
                    t, "ridingMu"), t, <<RidingEntity(s, "p")>>))
\* Player.HasCooldown: hashFromItem calls EncodeItem with cooldownMu held.
HasCooldown_step(s, t) ==
    Goto(MuUnlock(HasCooldown(Event(MuLock(s, t, "cooldownMu"), t, "call", "Item"),
                              s.th[t].arg[1]), t, "cooldownMu"), t, "idle")
\* The cooldown part of Tick.
tickCooldowns_step(s, t) ==
    Return(MuUnlock(tickCooldowns(Event(MuLock(s, t, "cooldownMu"), t, "write", "cooldowns")),
                    t, "cooldownMu"), t, <<>>)

\* The lock goroutine t has to acquire to take its next step, and how.
Wants(s, t) ==
    LET pc == s.th[t].pc
    IN IF pc \in {"Data0", "SetFood1", "Food0", "Exhaust1", "Exhaust3", "Exhaust7"}
       THEN <<"hunger.mu", "r">>
       ELSE IF pc \in {"Data4", "StartFlying0", "StartFlying3", "Exhaust0"}
            THEN <<"gameModeMu", "r">>
       ELSE IF pc \in {"tickFood2", "SetFood0", "Exhaust2", "Exhaust4", "Exhaust6"}
            THEN <<"hunger.mu", "w">>
       ELSE IF pc \in {"SetFood2", "SetGameMode2", "SetSkin4", "StartFlying2"}
            THEN <<"sMutex", "r">>
       ELSE IF pc = "SetGameMode0" THEN <<"gameModeMu", "w">>
       ELSE IF pc \in {"Handle0", "Close1"} THEN <<"hMutex", "w">>
       ELSE IF pc = "SetSkin0" THEN <<"hMutex", "r">>
       ELSE IF pc = "SetSkin2" THEN <<"skinMu", "w">>
       ELSE IF pc = "RidingEntity0" THEN <<"ridingMu", "w">>
       ELSE IF pc \in {"HasCooldown0", "tickCooldowns0"} THEN <<"cooldownMu", "w">>
       ELSE <<>>
Blocked(s, t) ==
    /\ Wants(s, t) # <<>>
    /\ IF Wants(s, t)[2] = "w" THEN ~CanLock(s, Wants(s, t)[1])
       ELSE ~CanRLock(s, Wants(s, t)[1])
\* The next statement of goroutine t.
Step(s, t) ==
    LET m == s.th[t].m
    IN IF m = "Data" THEN Data_step(s, t)
       ELSE IF m = "tickFood" THEN tickFood_step(s, t)
       ELSE IF m = "SetFood" THEN SetFood_step(s, t)
       ELSE IF m = "SetGameMode" THEN SetGameMode_step(s, t)
       ELSE IF m = "Handle" THEN Handle_step(s, t)
       ELSE IF m = "SetSkin" THEN SetSkin_step(s, t)
       ELSE IF m = "RidingEntity" THEN RidingEntity_step(s, t)
       ELSE IF m = "HasCooldown" THEN HasCooldown_step(s, t)
       ELSE IF m = "Close" THEN Close_step(s, t)
       ELSE IF m = "Hurt" THEN Hurt_step(s, t)
       ELSE IF m = "StartFlying" THEN StartFlying_step(s, t)
       ELSE IF m = "Food" THEN Food_step(s, t)
       ELSE IF m = "Exhaust" THEN Exhaust_step(s, t)
       ELSE tickCooldowns_step(s, t)
\* Goroutine t enters method m.
Call(s, t, m, arg) ==
    [s EXCEPT !.th[t] = [pc |-> m \o "0", m |-> m, arg |-> arg, h |-> NopHandler, snap |-> <<>>]]

\* ------------------------------------------------------- construction
\* Player.New / NewWithSession in a world of the given difficulty.
New(session, diff) ==
    [health |-> 20 * HP, maxHealth |-> 20 * HP, absorptionHealth |-> 0,
     gameMode |-> "survival", h |-> NopHandler, hasSession |-> session, closed |-> FALSE,
     inWorld |-> TRUE,
     effects |-> NoEffects, effectTicks |-> NoEffects,
     armour |-> [i \in ArmourSlots |-> EmptyStack], held |-> EmptyStack,
     vel |-> <<0, 0>>, pos |-> Spawn, yaw |-> 0, pitch |-> 0,
     onGround |-> FALSE, fallDistance |-> 0, mcOnGround |-> FALSE, immunity |-> 0,
     foodLevel |-> 20, saturationLevel |-> 5 * SAT, exhaustionLevel |-> 0, foodTick |-> 0,
     sprinting |-> FALSE, sneaking |-> FALSE, swimming |-> FALSE, flying |-> FALSE,
     immobile |-> FALSE, invisible |-> FALSE, speed |-> <<SPD \div 10, 0>>,
     fireTicks |-> 0, skin |-> "steve", riding |-> "none", seatPosition |-> 0,
     riders |-> <<>>, others |-> <<>>, blocks |-> <<>>, chest |-> 0, items |-> 0,
     difficulty |-> diff, deathTimers |-> 0,
     cooldowns |-> [i \in {} |-> 0], breaking |-> FALSE, breakingPos |-> <<0, 0>>,
     breakParticleCounter |-> 0, lastBreakDuration |-> 0, now |-> 0,
     mu |-> [l \in Locks |-> {}], th |-> [t \in Threads |-> IdleThread],
     ret |-> <<>>, hooks |-> <<>>, ran |-> <<>>, out |-> <<>>, acc |-> <<>>]

\* The variables hold the state s, before any observed operation.
StartIn(s) ==
    /\ health = s.health /\ maxHealth = s.maxHealth
    /\ absorptionHealth = s.absorptionHealth
    /\ gameMode = s.gameMode /\ h = s.h /\ hasSession = s.hasSession
    /\ closed = s.closed /\ inWorld = s.inWorld
    /\ effects = s.effects /\ effectTicks = s.effectTicks
    /\ armour = s.armour /\ held = s.held
    /\ vel = s.vel /\ pos = s.pos /\ yaw = s.yaw /\ pitch = s.pitch
    /\ onGround = s.onGround /\ fallDistance = s.fallDistance
    /\ mcOnGround = s.mcOnGround /\ immunity = s.immunity
    /\ foodLevel = s.foodLevel /\ saturationLevel = s.saturationLevel
    /\ exhaustionLevel = s.exhaustionLevel /\ foodTick = s.foodTick
    /\ sprinting = s.sprinting /\ sneaking = s.sneaking /\ swimming = s.swimming
    /\ flying = s.flying
    /\ immobile = s.immobile /\ invisible = s.invisible /\ speed = s.speed
    /\ fireTicks = s.fireTicks /\ skin = s.skin /\ riding = s.riding
    /\ seatPosition = s.seatPosition /\ riders = s.riders /\ others = s.others
    /\ blocks = s.blocks /\ chest = s.chest /\ items = s.items
    /\ difficulty = s.difficulty /\ deathTimers = s.deathTimers
    /\ cooldowns = s.cooldowns /\ breaking = s.breaking /\ breakingPos = s.breakingPos
    /\ breakParticleCounter = s.breakParticleCounter
    /\ lastBreakDuration = s.lastBreakDuration /\ now = s.now
    /\ mu = s.mu /\ th = s.th
    /\ ret = <<>> /\ hooks = <<>> /\ ran = <<>> /\ out = <<>> /\ acc = <<>>
    /\ op = [name |-> "new"]
    /\ ops = 0

\* ------------------------------------------------------------- inputs
\* Raw damage and heal amounts, in health units.
Amounts == {-HP, 0, 25 * HP} \cup {k * HP : k \in 1 .. MaxDmg}
Sources == {Src("entityAttack", 1), Src("fall", 0), Src("fireTick", 0), Src("void", 0)}
\* Armour sets the inventory collaborator puts in the armour slots.
NoArmour == [i \in ArmourSlots |-> EmptyStack]
WornArmour ==
    (0 :> Piece(2, 2, 0, 0, 0, 0, 1) @@ 1 :> Piece(6, 9, 0, 1, 0, 0, 0)
     @@ 2 :> Piece(5, 9, 0, 0, 1, 0, 0) @@ 3 :> Piece(2, 1, 0, 0, 0, 2, 0))
HeavyArmour ==
    (0 :> Piece(3, 9, 10, 4, 0, 0, 0) @@ 1 :> Piece(8, 2, 10, 4, 7, 0, 0)
     @@ 2 :> Piece(6, 9, 10, 4, 0, 0, 0) @@ 3 :> Piece(3, 9, 10, 4, 0, 4, 0))
ArmourSets == {NoArmour, WornArmour, HeavyArmour}

\* A set-up of the player by the embedding program before the observed
\* operations: the handler it installs, the game mode it sets, the armour
\* it equips, the absorption and effects it gives and the damage it deals.
Setup(session, diff, handler, mode, arm, absorb, fx, wound) ==
    [session |-> session, difficulty |-> diff, handler |-> handler, mode |-> mode,
     armour |-> arm, absorb |-> absorb, effects |-> fx, wound |-> wound]
Build(c) ==
    Then(New(c.session, c.difficulty), LAMBDA s0 :
    Then(IF c.wound > 0 THEN Hurt(s0, c.wound, Src("void", 0), Pol(s0, FALSE)) ELSE s0, LAMBDA s1 :
    Then(IF c.mode # s1.gameMode THEN SetGameMode(s1, c.mode) ELSE s1, LAMBDA s2 :
    Then([s2 EXCEPT !.armour = c.armour, !.h = c.handler], LAMBDA s3 :
    Then(IF c.absorb > 0 THEN SetAbsorption(s3, c.absorb) ELSE s3, LAMBDA s4 :
    Then(IF c.effects = "none" THEN s4 ELSE AddEffect(s4, c.effects, 1, 600), LAMBDA s5 :
    [s5 EXCEPT !.ret = <<>>, !.hooks = <<>>, !.ran = <<>>, !.out = <<>>]))))))

\* The handlers installed in the combat scenarios.
CombatHandlers ==
    {NopHandler}
    \cup {Handler(TRUE, {}, a) : a \in {<<>>, <<-HP>>, <<2 * HP>>}}
    \cup {Handler(TRUE, {k}, <<>>) : k \in {"HandleHurt", "HandleHeal", "HandleItemDamage"}}
CombatSetups ==
    {Setup(TRUE, "normal", hd, "survival", arm, ab, "none", 0) :
        hd \in CombatHandlers, arm \in {NoArmour, WornArmour}, ab \in {0, 4 * HP}}
    \cup {Setup(se, df, NopHandler, md, arm, ab, "none", wd) :
        se \in BOOLEAN, df \in {"normal", "peaceful"}, md \in {"survival", "creative"},
        arm \in {HeavyArmour}, ab \in {0, 2 * HP}, wd \in {0, 19 * HP, 25 * HP}}
    \cup {Setup(TRUE, "normal", NopHandler, md, WornArmour, 0, fx, 0) :
        md \in {"adventure", "spectator"}, fx \in {"fireResistance", "resistance"}}

\* Saved player data handed to NewWithSession.
Data(hunger, saturation, exhaustion, tick, hp) ==
    [Yaw |-> 0, Pitch |-> 0, MaxHealth |-> 20 * HP, Health |-> hp,
     Hunger |-> hunger, FoodTick |-> tick, ExhaustionLevel |-> exhaustion,
     SaturationLevel |-> saturation, GameMode |-> "survival", FireTicks |-> 0,
     FallDistance |-> 0, Armour |-> NoArmour, Held |-> EmptyStack]
\* The policy of the no-op handler.
NopPol == [cancel |-> {}, amount |-> <<>>, rnd |-> FALSE]
\* Players restored from saved data that are hungry, burning or below the
\* world when the observed operations begin.
TSetup(session, diff, hp, food, fire, y) ==
    [session |-> session, difficulty |-> diff, hp |-> hp, food |-> food, fire |-> fire, y |-> y]
BuildTick(c) ==
    Then(load(New(c.session, c.difficulty), Data(c.food, 0, 0, 79, c.hp)), LAMBDA s0 :
    Then(SetOnFire(teleport(s0, <<0, c.y>>), c.fire), LAMBDA s1 :
    [s1 EXCEPT !.ret = <<>>, !.hooks = <<>>, !.ran = <<>>, !.out = <<>>]))
TickSetups ==
    {TSetup(se, df, hp, fd, fr, y) :
        se \in BOOLEAN, df \in {"easy", "hard"}, hp \in {HP, 12 * HP}, fd \in {0, 20},
        fr \in {0, 1, 21}, y \in {0, -5}}

InitCombat ==
    \/ \E c \in CombatSetups : StartIn(Build(c))
    \/ \E c \in TickSetups : StartIn(BuildTick(c))

CanOp == ops < MaxOps /\ ~closed

\* ------------------------------------------------------------ actions
HurtOp ==
    /\ CanOp
    /\ \E dmg \in Amounts, src \in Sources, rnd \in BOOLEAN :
          Commit(Hurt(Cur, dmg, src, Pol(Cur, rnd)),
                 [name |-> "Hurt", raw |-> dmg, dmg |-> Rewritten(Cur, Pol(Cur, rnd), dmg),
                  src |-> src])

HealOp ==
    /\ CanOp
    /\ \E a \in {-HP, HP, 25 * HP} :
          Commit(Heal(Cur, a, Pol(Cur, FALSE)), [name |-> "Heal", amount |-> a])

SetMaxHealthOp ==
    /\ CanOp
    /\ \E m \in {HP, 30 * HP} :
          Commit(SetMaxHealth(Cur, m), [name |-> "SetMaxHealth", max |-> m])

KnockBackOp ==
    /\ CanOp
    /\ Commit(KnockBack(Cur, 1, 400, 400), [name |-> "KnockBack"])

RespawnOp ==
    /\ CanOp
    /\ Commit(Respawn(Cur, Pol(Cur, FALSE)), [name |-> "Respawn"])

TickOp ==
    /\ CanOp
    /\ \E immune \in BOOLEAN, raining \in BOOLEAN, delta \in {<<0, 0>>, <<0, -1>>} :
          Commit(Ret(Tick(Cur, TickEnv(0, immune, raining, delta, delta, FALSE), Pol(Cur, FALSE)),
                     <<>>),
                 [name |-> "Tick", immune |-> immune, raining |-> raining, delta |-> delta])

NextCombat ==
    \/ HurtOp
    \/ TickOp
    \/ HealOp
    \/ SetMaxHealthOp
    \/ KnockBackOp
    \/ RespawnOp

SpecCombat == InitCombat /\ [][NextCombat]_vars

\* ------------------------------------------------- pipeline scenarios
\* The world of the scenarios: a stone floor under the spawn, a chest, an
\* unbreakable block, a torch, and a stone block out of survival reach.
PipelineBlocks ==
    (<<0, -1>> :> "stone" @@ <<1, -1>> :> "stone" @@ <<1, 0>> :> "chest"
     @@ <<-1, 0>> :> "bedrock" @@ <<-1, 1>> :> "torch" @@ <<2, 0>> :> "stone"
     @@ <<10, 0>> :> "stone" @@ <<0, 1>> :> "air")
Pickaxe == Tool("pickaxe", 2, 1)
\* A player constructed in that world, next to the players "q" and "r".
NewIn(session, diff) ==
    [New(session, diff) EXCEPT
        !.blocks = PipelineBlocks, !.chest = 2,
        !.riders = [e \in Rideables |-> <<>>],
        !.others = [r \in {"q", "r"} |-> [seatPosition |-> 0, riding |-> "none"]]]
\* The riders mounted before the observed operations.
Mounted(s, mount) ==
    IF mount = "alone" THEN MountEntity(s, "boat", NopPol)
    ELSE IF mount = "first"
         THEN MountEntity_Continue(MountEntity(s, "boat", NopPol), "q", "boat")
    ELSE IF mount = "second"
         THEN MountEntity(MountEntity_Continue(s, "q", "boat"), "boat", NopPol)
    ELSE IF mount = "full"
         THEN MountEntity_Continue(MountEntity_Continue(s, "q", "boat"), "r", "boat")
    ELSE IF mount = "crowded"
         THEN MountEntity_Continue(
                  MountEntity_Continue(MountEntity(s, "cart", NopPol), "q", "cart"), "r", "cart")
    ELSE s
PSetup(session, handler, mode, st, mount, sprint, height, mcGround) ==
    [session |-> session, handler |-> handler, mode |-> mode, held |-> st,
     mount |-> mount, sprint |-> sprint, height |-> height, mcGround |-> mcGround]
BuildPipeline(c) ==
    Then(NewIn(c.session, "normal"), LAMBDA s0 :
    Then(IF c.mode # s0.gameMode THEN SetGameMode(s0, c.mode) ELSE s0, LAMBDA s1 :
    Then([s1 EXCEPT !.held = c.held, !.mcOnGround = c.mcGround], LAMBDA s2 :
    Then(Move(teleport(s2, <<0, c.height>>), <<0, 0>>, 1, 0, NopPol), LAMBDA s3 :
    Then(Mounted(s3, c.mount), LAMBDA s4 :
    Then(IF c.sprint THEN StartSprinting(s4, NopPol) ELSE s4, LAMBDA s5 :
    [s5 EXCEPT !.h = c.handler,
               !.ret = <<>>, !.hooks = <<>>, !.ran = <<>>, !.out = <<>>]))))))

PipelineHandlers ==
    {NopHandler}
    \cup {Handler(TRUE, {k}, <<>>) :
            k \in {"HandleMove", "HandleSkinChange", "HandleBlockBreak", "HandleDismount",
                   "HandleMount", "HandleItemDamage"}}
PipelineSetups ==
    {PSetup(se, hd, "survival", Pickaxe, mt, FALSE, 0, FALSE) :
        se \in BOOLEAN, hd \in PipelineHandlers, mt \in {"none", "second"}}
    \cup {PSetup(TRUE, hd, "survival", EmptyStack, mt, FALSE, 0, FALSE) :
        hd \in {NopHandler, Handler(TRUE, {"HandleDismount"}, <<>>)},
        mt \in {"full", "crowded"}}
    \cup {PSetup(TRUE, NopHandler, md, st, mt, sp, ht, FALSE) :
        md \in {"survival", "creative", "spectator"}, st \in {EmptyStack, Pickaxe},
        mt \in {"none", "alone", "first"}, sp \in BOOLEAN, ht \in {0, 10}}
    \cup {PSetup(se, Handler(TRUE, {"HandleMove"}, <<>>), "survival", EmptyStack, "none",
                 TRUE, ht, FALSE) : se \in BOOLEAN, ht \in {0, 10}}
    \cup {PSetup(FALSE, NopHandler, "survival", EmptyStack, "none", FALSE, 10, g) :
        g \in BOOLEAN}

\* Players restored from saved data in mid-fall: the accumulated fall
\* distance (tenths of a block), the level of the jump boost, the game mode
\* and the height they are at when the observed operations begin.
FSetup(dist, boost, mode, height) ==
    [dist |-> dist, boost |-> boost, mode |-> mode, height |-> height]
BuildFall(c) ==
    Then(load(NewIn(TRUE, "normal"),
              [Data(20, 5 * SAT, 0, 0, 20 * HP) EXCEPT !.FallDistance = c.dist, !.GameMode = c.mode]),
         LAMBDA s0 :
    Then(IF c.boost > 0 THEN AddEffect(teleport(s0, <<0, c.height>>), "jumpBoost", c.boost, 600)
         ELSE teleport(s0, <<0, c.height>>), LAMBDA s1 :
    [s1 EXCEPT !.ret = <<>>, !.hooks = <<>>, !.ran = <<>>, !.out = <<>>]))
FallSetups ==
    {FSetup(d, b, md, ht) :
        d \in {0, 29, 34, 35, 40, 50, 60}, b \in {0, 2}, md \in {"survival", "creative"},
        ht \in {0, 10}}

InitPipeline ==
    \/ \E c \in PipelineSetups : StartIn(BuildPipeline(c))
    \/ \E c \in FallSetups : StartIn(BuildFall(c))

MoveOp ==
    /\ CanOp
    /\ \E d \in {<<<<0, 0>>, 0>>, <<<<0, 0>>, 1>>, <<<<1, 0>>, 0>>, <<<<0, -5>>, 0>>, <<<<0, 1>>, 0>>} :
          Commit(Ret(Move(Cur, d[1], d[2], 0, Pol(Cur, FALSE)), <<>>),
                 [name |-> "Move", delta |-> d[1], deltaYaw |-> d[2]])

SetSkinOp ==
    /\ CanOp
    /\ Commit(SetSkin(Cur, "alex", Pol(Cur, FALSE)), [name |-> "SetSkin", skin |-> "alex"])

BreakBlockOp ==
    /\ CanOp
    /\ \E at \in DOMAIN PipelineBlocks :
          Commit(BreakBlock(Cur, at, Pol(Cur, FALSE)), [name |-> "BreakBlock", pos |-> at])

MountEntityOp ==
    /\ CanOp
    /\ \E e \in Rideables :
          Commit(MountEntity(Cur, e, Pol(Cur, FALSE)), [name |-> "MountEntity", e |-> e])

DismountEntityOp ==
    /\ CanOp
    /\ Commit(DismountEntity(Cur, Pol(Cur, FALSE)), [name |-> "DismountEntity"])

NextPipeline ==
    \/ MoveOp
    \/ SetSkinOp
    \/ BreakBlockOp
    \/ MountEntityOp
    \/ DismountEntityOp

SpecPipeline == InitPipeline /\ [][NextPipeline]_vars

\* --------------------------------------------------- damage scenarios
\* Armour whose pieces break under light wear and lose their protection.
BrittleArmour ==
    (0 :> Piece(3, 1, 0, 2, 0, 0, 0) @@ 1 :> Piece(8, 2, 0, 3, 0, 0, 1)
     @@ 2 :> Piece(6, 9, 0, 0, 0, 0, 0) @@ 3 :> Piece(3, 2, 0, 1, 0, 2, 0))
Damages == {0, HP, 3 * HP, 4 * HP, 8 * HP, 12 * HP, 25 * HP}
DamageSources ==
    {Src("entityAttack", 0), Src("entityAttack", 2), Src("fall", 0), Src("fire", 0),
     Src("lava", 0), Src("void", 0), Src("custom", 0)}
DamageSetups ==
    {Setup(TRUE, "normal", hd, "survival", arm, 0, "none", 0) :
        hd \in {NopHandler, Handler(TRUE, {"HandleItemDamage"}, <<>>)},
        arm \in ArmourSets \cup {BrittleArmour}}
InitDamage ==
    \E c \in DamageSetups, lvl \in {0, 1, 3, 6} :
        StartIn(IF lvl > 0 THEN AddEffect(Build(c), "resistance", lvl, 600) ELSE Build(c))

FinalDamageFromOp ==
    /\ CanOp
    /\ \E d \in Damages, src \in DamageSources, rnd \in BOOLEAN :
          Commit(Ret(FinalDamageFrom(Cur, d, src, Pol(Cur, rnd)).s,
                     <<FinalDamageFrom(Cur, d, src, Pol(Cur, rnd)).dmg>>),
                 [name |-> "FinalDamageFrom", dmg |-> d, src |-> src, rnd |-> rnd])

NextDamage == FinalDamageFromOp

SpecDamage == InitDamage /\ [][NextDamage]_vars

\* --------------------------------------------------- hunger scenarios
\* n calls of tickFood under the no-op handler.
RECURSIVE TickFoodTimes(_, _)
TickFoodTimes(s, n) == IF n = 0 THEN s ELSE TickFoodTimes(tickFood(s, NopPol), n - 1)
HSetup(diff, handler, data, food, ticks, wound, sprint) ==
    [difficulty |-> diff, handler |-> handler, data |-> data, food |-> food,
     ticks |-> ticks, wound |-> wound, sprint |-> sprint]
BuildHunger(c) ==
    Then(IF c.data = <<>> THEN New(TRUE, c.difficulty)
         ELSE load(New(TRUE, c.difficulty), c.data[1]), LAMBDA s0 :
    Then(IF c.wound > 0 THEN Hurt(s0, c.wound, Src("void", 0), NopPol) ELSE s0, LAMBDA s1 :
    Then(IF c.sprint THEN StartSprinting(s1, NopPol) ELSE s1, LAMBDA s2 :
    Then(IF c.food # 20 THEN Saturate(s2, c.food - 20, 0) ELSE s2, LAMBDA s3 :
    Then(TickFoodTimes(s3, c.ticks), LAMBDA s4 :
    [s4 EXCEPT !.h = c.handler,
               !.ret = <<>>, !.hooks = <<>>, !.ran = <<>>, !.out = <<>>])))))
HungerHandlers == {NopHandler, Handler(TRUE, {"HandleFoodLoss"}, <<>>)}
HungerSetups ==
    {HSetup(df, hd, dt, fd, tk, wd, FALSE) :
        df \in {"peaceful", "normal"}, hd \in HungerHandlers,
        dt \in {<<>>, <<Data(20, 5 * SAT, 0, 79, 20 * HP)>>}, fd \in {0, 7, 20},
        tk \in {0, 9}, wd \in {0, 2 * HP}}
    \cup {HSetup("normal", hd, <<>>, 7, 0, wd, TRUE) :
        hd \in HungerHandlers, wd \in {0, 25 * HP}}
    \cup {HSetup("normal", NopHandler, <<dt>>, 20, 0, 0, FALSE) :
        dt \in {Data(20, 5 * SAT, 0, 0, 20 * HP), Data(5, 10 * SAT, 3 * EXH, 79, 10 * HP),
                Data(27, 0, 0, 9, 20 * HP), Data(-4, 0, 0, 90, 20 * HP)}}
\* Players restored from saved data with an empty food bar, one tick before
\* the hunger tick evaluates starvation.
StarvingSetups ==
    {HSetup(df, NopHandler, <<Data(0, 0, 0, 79, hp)>>, 20, 0, 0, FALSE) :
        df \in {"peaceful", "easy", "normal", "hard"},
        hp \in {HP, 2 * HP, 3 * HP, 10 * HP, 11 * HP}}
InitHunger == \E c \in HungerSetups \cup StarvingSetups : StartIn(BuildHunger(c))

SetFoodOp ==
    /\ CanOp
    /\ \E level \in {-3, 0, 6, 27} :
          Commit(SetFood(Cur, level), [name |-> "SetFood", level |-> level])

AddFoodOp ==
    /\ CanOp
    /\ \E points \in {-25, -1, 1, 30} :
          Commit(AddFood(Cur, points), [name |-> "AddFood", points |-> points])

SaturateOp ==
    /\ CanOp
    /\ \E a \in {<<-2, -3 * SAT>>, <<3, 6 * SAT>>, <<25, 30 * SAT>>, <<0, SAT>>} :
          Commit(Saturate(Cur, a[1], a[2]),
                 [name |-> "Saturate", food |-> a[1], saturation |-> a[2]])

ExhaustOp ==
    /\ CanOp
    /\ \E points \in {EXH \div 10, 4 * EXH, 50 * EXH} :
          Commit(Exhaust(Cur, points, Pol(Cur, FALSE)), [name |-> "Exhaust", points |-> points])

NextHunger ==
    \/ SetFoodOp
    \/ AddFoodOp
    \/ SaturateOp
    \/ ExhaustOp
    \/ TickOp
    \/ RespawnOp

SpecHunger == InitHunger /\ [][NextHunger]_vars

\* --------------------------------------------------- cooldown scenarios
CooldownItems == {"pearl", "apple"}
\* A player who set a cooldown on the pearl some time ago (or never), alive
\* or dead when the observed operations begin.
CSetup(cool, elapsed, wound) == [cool |-> cool, elapsed |-> elapsed, wound |-> wound]
BuildCooldown(c) ==
    Then(IF c.cool = <<>> THEN New(TRUE, "normal")
         ELSE SetCooldown(New(TRUE, "normal"), "pearl", c.cool[1]), LAMBDA s0 :
    Then(IF c.wound > 0 THEN Hurt(s0, c.wound, Src("void", 0), NopPol) ELSE s0, LAMBDA s1 :
    [s1 EXCEPT !.now = c.elapsed, !.ret = <<>>, !.hooks = <<>>, !.ran = <<>>, !.out = <<>>]))
CooldownSetups ==
    {CSetup(cl, el, wd) : cl \in {<<>>, <<0>>, <<1>>, <<2>>}, el \in 0 .. 3,
                          wd \in {0, 25 * HP}}
InitCooldown == \E c \in CooldownSetups : StartIn(BuildCooldown(c))

\* Time passes between two operations.
ClockOp ==
    /\ CanOp
    /\ \E d \in 1 .. 2 : Commit([Cur EXCEPT !.now = @ + d], [name |-> "clock", by |-> d])

HasCooldownOp ==
    /\ CanOp
    /\ \E it \in CooldownItems :
          Commit(HasCooldown(Cur, it),
                 [name |-> "HasCooldown", item |-> it, had |-> it \in DOMAIN cooldowns])

SetCooldownOp ==
    /\ CanOp
    /\ \E it \in CooldownItems, c \in 0 .. 2 :
          Commit(Ret(SetCooldown(Cur, it, c), <<>>),
                 [name |-> "SetCooldown", item |-> it, cooldown |-> c])

NextCooldown ==
    \/ SetCooldownOp
    \/ HasCooldownOp
    \/ ClockOp
    \/ TickOp

SpecCooldown == InitCooldown /\ [][NextCooldown]_vars

\* --------------------------------------------------- breaking scenarios
\* The world of the pipeline scenarios with a fire on top of one stone.
BreakingBlocks == (<<2, 1>> :> "fire") @@ PipelineBlocks
\* A player who started breaking a block (or none) before the observed
\* operations, standing on the ground or restored in mid-air.
BSetup(handler, mode, st, started, grounded) ==
    [handler |-> handler, mode |-> mode, held |-> st, started |-> started,
     grounded |-> grounded]
BuildBreaking(c) ==
    Then([NewIn(TRUE, "normal") EXCEPT !.blocks = BreakingBlocks, !.held = c.held],
         LAMBDA s0 :
    Then(IF c.mode # s0.gameMode THEN SetGameMode(s0, c.mode) ELSE s0, LAMBDA s1 :
    Then(IF c.grounded THEN Move(s1, <<0, 0>>, 1, 0, NopPol) ELSE s1, LAMBDA s2 :
    Then(IF c.started # <<>> THEN StartBreaking(s2, c.started[1], "up", NopPol) ELSE s2,
         LAMBDA s3 :
    [s3 EXCEPT !.h = c.handler,
               !.ret = <<>>, !.hooks = <<>>, !.ran = <<>>, !.out = <<>>]))))
BreakingSetups ==
    {BSetup(hd, md, st, sd, gr) :
        hd \in {NopHandler, Handler(TRUE, {"HandleStartBreak"}, <<>>),
                Handler(TRUE, {"HandleBlockBreak"}, <<>>)},
        md \in {"survival", "creative"}, st \in {EmptyStack, Pickaxe},
        sd \in {<<>>, << <<0, -1>> >>, << <<1, 0>> >>}, gr \in BOOLEAN}
    \cup {BSetup(NopHandler, md, Tool("sword", 2, 2), sd, TRUE) :
        md \in {"survival", "creative"}, sd \in {<<>>, << <<0, -1>> >>}}
InitBreaking == \E c \in BreakingSetups : StartIn(BuildBreaking(c))

StartBreakingOp ==
    /\ CanOp
    /\ \E at \in {<<0, -1>>, <<1, 0>>, <<-1, 1>>, <<0, 1>>, <<2, 0>>, <<10, 0>>},
          face \in {"up", "west"} :
          Commit(Ret(StartBreaking(Cur, at, face, Pol(Cur, FALSE)), <<>>),
                 [name |-> "StartBreaking", pos |-> at, face |-> face])

ContinueBreakingOp ==
    /\ CanOp
    /\ Commit(Ret(ContinueBreaking(Cur, "up"), <<>>), [name |-> "ContinueBreaking"])

AbortBreakingOp ==
    /\ CanOp
    /\ Commit(Ret(AbortBreaking(Cur), <<>>), [name |-> "AbortBreaking", active |-> breaking])

FinishBreakingOp ==
    /\ CanOp
    /\ Commit(Ret(FinishBreaking(Cur, Pol(Cur, FALSE)), <<>>),
              [name |-> "FinishBreaking", active |-> breaking])

NextBreaking ==
    \/ StartBreakingOp
    \/ ContinueBreakingOp
    \/ AbortBreakingOp
    \/ FinishBreakingOp

SpecBreaking == InitBreaking /\ [][NextBreaking]_vars

\* ------------------------------------------------------ lock scenarios
\* Players restored from saved data whose methods are called from the
\* session goroutine while the world ticks them.
LSetup(diff, mount, food, tick) ==
    [difficulty |-> diff, mount |-> mount, food |-> food, tick |-> tick]
BuildLocks(c) ==
    Then(load(NewIn(TRUE, c.difficulty), Data(c.food, 0, 3 * EXH, c.tick, 19 * HP)), LAMBDA s0 :
    Then(SetCooldown(Mounted(s0, c.mount), "pearl", 1), LAMBDA s1 :
    [s1 EXCEPT !.ret = <<>>, !.hooks = <<>>, !.ran = <<>>, !.out = <<>>]))
LockSetups ==
    {LSetup(df, mt, 20, tk) :
        df \in {"normal", "peaceful"}, mt \in {"none", "alone"}, tk \in {9, 79}}
    \cup {LSetup("normal", "none", 0, 79)}
\* The same players, and one on which a handler that vetoes skin changes
\* was installed.
InitLocks ==
    \/ \E c \in LockSetups : StartIn(BuildLocks(c))
    \/ StartIn(Handle(BuildLocks(LSetup("normal", "alone", 20, 9)),
                      Handler(TRUE, {"HandleSkinChange"}, <<>>)))

\* The methods each goroutine calls, with their arguments.
Calls(t) ==
    IF t = "tick"
    THEN {<<"tickFood", <<>>>>, <<"tickCooldowns", <<>>>>, <<"SetGameMode", <<"spectator">>>>,
          <<"Close", <<>>>>, <<"Hurt", <<4 * HP, Src("void", 0)>>>>}
    ELSE {<<"Data", <<>>>>, <<"SetFood", <<6>>>>, <<"SetGameMode", <<"creative">>>>,
          <<"Handle", <<NilHandler>>>>,
          <<"Handle", <<Handler(TRUE, {"HandleSkinChange"}, <<>>)>>>>,
          <<"SetSkin", <<"alex">>>>, <<"RidingEntity", <<>>>>, <<"HasCooldown", <<"pearl">>>>,
          <<"Hurt", <<25 * HP, Src("entityAttack", 1)>>>>}

CallOp ==
    /\ CanOp
    /\ \E t \in Threads : \E c \in Calls(t) :
          /\ th[t].pc = "idle"
          /\ Commit(Call(Cur, t, c[1], c[2]), [name |-> "call", t |-> t, m |-> c[1], arg |-> c[2]])

StepOp ==
    \E t \in Threads :
        /\ th[t].pc # "idle"
        /\ ~Blocked(Cur, t)
        /\ Assign(Step(Cur, t), [name |-> th[t].m, t |-> t, pc |-> th[t].pc, arg |-> th[t].arg],
                  ops)

NextLocks ==
    \/ CallOp
    \/ StepOp

SpecLocks == InitLocks /\ [][NextLocks]_vars

\* --------------------------------------------------- effect scenarios
\* Players with and without a session that have no effect, or resistance
\* of level 2 with 100 ticks left.
EffectLevels == 1 .. 3
EffectDurations == {2, 99, 100, 200}
InitEffects ==
    \E se \in BOOLEAN, had \in BOOLEAN :
        StartIn(IF had THEN AddEffect(NewIn(se, "normal"), "resistance", 2, 100)
                ELSE NewIn(se, "normal"))

AddEffectOp ==
    /\ CanOp
    /\ \E k \in {"resistance", "jumpBoost"}, lvl \in EffectLevels, dur \in EffectDurations :
          Commit(AddEffect(Cur, k, lvl, dur),
                 [name |-> "AddEffect", k |-> k, lvl |-> lvl, dur |-> dur])

RemoveEffectOp ==
    /\ CanOp
    /\ \E k \in {"resistance", "jumpBoost"} :
          Commit(RemoveEffect(Cur, k), [name |-> "RemoveEffect", k |-> k])

NextEffects ==
    \/ AddEffectOp
    \/ RemoveEffectOp
    \/ TickOp

SpecEffects == InitEffects /\ [][NextEffects]_vars

\* ------------------------------------------------ placement scenarios
\* Players at the spawn or ten blocks above it, in each game mode, with a
\* handler that lets blocks be placed or vetoes it.
PlaceHandlers == {NopHandler, Handler(TRUE, {"HandleBlockPlace"}, <<>>)}
PlaceSetups ==
    {PSetup(TRUE, hd, md, EmptyStack, "none", FALSE, ht, FALSE) :
        hd \in PlaceHandlers, md \in {"survival", "creative", "adventure", "spectator"},
        ht \in {0, 10}}
\* The head of a player at the spawn, the cell beside it, the floor, a
\* cell in creative reach only, and the lowest cell of the world.
PlaceTargets == {<<0, 1>>, <<1, 1>>, <<0, -1>>, <<10, 0>>, <<0, WorldMinY>>}
PlaceContexts == {NilContext, UseContext(FALSE, 0), UseContext(TRUE, 1)}
InitPlace == \E c \in PlaceSetups : StartIn(BuildPipeline(c))

PlaceBlockOp ==
    /\ CanOp
    /\ \E at \in PlaceTargets, b \in {"stone", "torch"}, ctx \in PlaceContexts :
          Commit(PlaceBlock(Cur, at, b, ctx, Pol(Cur, FALSE)),
                 [name |-> "PlaceBlock", pos |-> at, b |-> b, ctx |-> ctx])

placeBlockOp ==
    /\ CanOp
    /\ \E at \in PlaceTargets, b \in {"stone", "torch"}, ignoreAABB \in BOOLEAN :
          Commit(placeBlock(Cur, at, b, ignoreAABB, Pol(Cur, FALSE)),
                 [name |-> "placeBlock", pos |-> at, b |-> b, ignoreAABB |-> ignoreAABB])

NextPlace ==
    \/ PlaceBlockOp
    \/ placeBlockOp
    \/ BreakBlockOp

SpecPlace == InitPlace /\ [][NextPlace]_vars

\* ------------------------------------------------ lifecycle scenarios
\* Players with and without a session, riding or not, a hit away from
\* death or unhurt, with the handler the embedding program installed.
LifeHandlers ==
    {NopHandler, Handler(TRUE, {}, <<>>), Handler(TRUE, {"HandleDismount"}, <<>>)}
FSetupLife(session, handler, mount, wound) ==
    [session |-> session, handler |-> handler, mount |-> mount, wound |-> wound]
BuildLife(c) ==
    Then(Mounted(NewIn(c.session, "normal"), c.mount), LAMBDA s0 :
    Then(IF c.wound > 0 THEN Hurt(s0, c.wound, Src("void", 0), NopPol) ELSE s0, LAMBDA s1 :
    [Handle(s1, c.handler) EXCEPT !.ret = <<>>, !.hooks = <<>>, !.ran = <<>>, !.out = <<>>]))
LifeSetups ==
    {FSetupLife(se, hd, mt, wd) :
        se \in BOOLEAN, hd \in LifeHandlers, mt \in {"none", "alone"},
        wd \in {0, 19 * HP, 25 * HP}}
InitLife == \E c \in LifeSetups : StartIn(BuildLife(c))

\* A public method is called on the player, closed or not.
CanCall == ops < MaxOps

KillOp ==
    /\ CanOp
    /\ \E dmg \in {HP, 25 * HP} :
          Commit(Hurt(Cur, dmg, Src("void", 0), Pol(Cur, FALSE)),
                 [name |-> "Hurt", raw |-> dmg, dmg |-> dmg, src |-> Src("void", 0)])

CloseOp ==
    /\ CanCall
    /\ Commit(Close(Cur, Pol(Cur, FALSE)), [name |-> "Close"])

DisconnectOp ==
    /\ CanCall
    /\ Commit(Disconnect(Cur, "kicked", Pol(Cur, FALSE)), [name |-> "Disconnect"])

HandleOp ==
    /\ CanCall
    /\ \E hd \in LifeHandlers \cup {NilHandler} :
          Commit(Handle(Cur, hd), [name |-> "Handle", h |-> hd])

\* The timer of a death fires.
AfterFuncOp ==
    /\ deathTimers > 0
    /\ Assign(kill_AfterFunc(Cur, Pol(Cur, FALSE)), [name |-> "AfterFunc"], ops)

\* The session, its connection closed, removes the player from the world.
RemoveEntityOp ==
    /\ closed /\ inWorld
    /\ Assign([Cur EXCEPT !.inWorld = FALSE], [name |-> "RemoveEntity"], ops)

NextLife ==
    \/ KillOp
    \/ RespawnOp
    \/ CloseOp
    \/ DisconnectOp
    \/ HandleOp
    \/ AfterFuncOp
    \/ RemoveEntityOp

SpecLife == InitLife /\ [][NextLife]_vars

\* ----------------------------------------------- food-reader scenarios
\* Players with an exhaustion level of 3 and no saturation, with a handler
\* that lets food losses through or vetoes them; the session goroutine
\* exhausts the player while another goroutine reads its food level.
FoodLossHandlers == {NopHandler, Handler(TRUE, {"HandleFoodLoss"}, <<>>)}
InitFood ==
    \E c \in LockSetups \cup {LSetup("normal", "none", 7, 9)}, hd \in FoodLossHandlers :
        StartIn(Handle(BuildLocks(c), hd))
FoodCalls(t) ==
    IF t = "session" THEN {<<"Exhaust", <<x>>>> : x \in {EXH \div 2, EXH, 5 * EXH}}
    ELSE {<<"Food", <<>>>>, <<"SetGameMode", <<"creative">>>>}

CallFoodOp ==
    /\ CanOp
    /\ \E t \in Threads : \E c \in FoodCalls(t) :
          /\ th[t].pc = "idle"
          /\ Commit(Call(Cur, t, c[1], c[2]), [name |-> "call", t |-> t, m |-> c[1], arg |-> c[2]])

NextFood ==
    \/ CallFoodOp
    \/ StepOp

SpecFood == InitFood /\ [][NextFood]_vars

\* --------------------------------------------------- flight scenarios
\* Players in creative mode, on the ground or flying, whose session
\* goroutine starts flying while another goroutine changes the game mode.
InitFlight ==
    \E c \in LockSetups, fl \in BOOLEAN :
        StartIn([SetGameMode(BuildLocks(c), "creative") EXCEPT !.flying = fl])
FlightCalls(t) ==
    IF t = "session" THEN {<<"StartFlying", <<>>>>}
    ELSE {<<"SetGameMode", <<md>>>> : md \in {"survival", "creative", "spectator"}}

CallFlightOp ==
    /\ CanOp
    /\ \E t \in Threads : \E c \in FlightCalls(t) :
          /\ th[t].pc = "idle"
          /\ Commit(Call(Cur, t, c[1], c[2]), [name |-> "call", t |-> t, m |-> c[1], arg |-> c[2]])

NextFlight ==
    \/ CallFlightOp
    \/ StepOp

SpecFlight == InitFlight /\ [][NextFlight]_vars

\* -------------------------------------------------- posture scenarios
\* Players in survival mode with a full or a low food bar whose handler is
\* swapped between calls, so that each toggle hook is let through in one
\* call and vetoed in another. Base is the speed the player was given
\* last: the one of New, or the argument of the last SetSpeed.
PostureHandlers ==
    {NopHandler, Handler(TRUE, {"HandleToggleSneak"}, <<>>),
     Handler(TRUE, {"HandleToggleSprint"}, <<>>)}
PostureSpeeds == {<<SPD \div 10, 0>>, <<110, 0>>}
InitPosture == \E fd \in {6, 20} : StartIn(SetFood(NewIn(TRUE, "normal"), fd))
Base == IF "base" \in DOMAIN op THEN op.base ELSE <<SPD \div 10, 0>>

StartSprintingOp ==
    /\ CanOp
    /\ Commit(StartSprinting(Cur, Pol(Cur, FALSE)), [name |-> "StartSprinting", base |-> Base])

StopSprintingOp ==
    /\ CanOp
    /\ Commit(StopSprinting(Cur, Pol(Cur, FALSE)), [name |-> "StopSprinting", base |-> Base])

StartSneakingOp ==
    /\ CanOp
    /\ Commit(StartSneaking(Cur, Pol(Cur, FALSE)), [name |-> "StartSneaking", base |-> Base])

StopSneakingOp ==
    /\ CanOp
    /\ Commit(StopSneaking(Cur, Pol(Cur, FALSE)), [name |-> "StopSneaking", base |-> Base])

\* SetSpeed on a player that is not sprinting. SetSpeed and Handle configure
\* the player and are not counted as posture calls.
SetSpeedOp ==
    /\ CanOp
    /\ ~sprinting
    /\ \E v \in PostureSpeeds :
          Assign(SetSpeed(Cur, v), [name |-> "SetSpeed", base |-> v], ops)

EatOp ==
    /\ CanOp
    /\ Commit(AddFood(Cur, 14), [name |-> "AddFood", base |-> Base])

HandlePostureOp ==
    /\ CanOp
    /\ \E hd \in PostureHandlers :
          Assign(Handle(Cur, hd), [name |-> "Handle", base |-> Base, h |-> hd], ops)

NextPosture ==
    \/ StartSprintingOp
    \/ StopSprintingOp
    \/ StartSneakingOp
    \/ StopSneakingOp
    \/ SetSpeedOp
    \/ EatOp
    \/ HandlePostureOp

SpecPosture == InitPosture /\ [][NextPosture]_vars

\* =============================================================== claims
HookCalled(log, hook) == \E i \in 1 .. Len(log) : log[i].hook = hook
HookContinued(log, hook) == \E i \in 1 .. Len(log) : log[i].hook = hook /\ ~log[i].cancel
HookStopped(log, hook) == \E i \in 1 .. Len(log) : log[i].hook = hook /\ log[i].cancel
IsDead == health <= 0
Damageable == AllowsTakingDamage(gameMode)

\* The hook of each operation that has an effect and a rollback closure.
PipelineHook ==
    [Move |-> "HandleMove", SetSkin |-> "HandleSkinChange",
     BreakBlock |-> "HandleBlockBreak", DismountEntity |-> "HandleDismount"]
\* The closures the last operation ran of its own two.
ClosuresRun == SelectSeq(ran, LAMBDA e : e[1] = op.name)

T_C2_HealthWithinBounds == 0 <= health /\ health <= maxHealth /\ maxHealth > 0
\* A heal larger than the missing health has been applied to a wounded
\* player, and the health stopped at the maximum.
W_C2_HealClamped ==
    /\ op.name = "Heal" /\ op.amount = 25 * HP
    /\ HookContinued(hooks, "HandleHeal")
    /\ health = maxHealth

\* C3: a Hurt call never leaves the health above its value before the
\* call nor below 0, whatever the handler writes to the amount.
T_C3_HurtNeverHeals == [][op'.name = "Hurt" => (health' <= health /\ health' >= 0)]_vars
\* A user handler rewrote the amount of a Hurt that went on to take health.
W_C3_HandlerRewroteHurt ==
    /\ op.name = "Hurt" /\ h.user /\ h.amount # <<>> /\ op.raw # op.dmg
    /\ ret[2] /\ ret[1] > 0 /\ health < maxHealth

\* C4: on a Hurt that proceeds with final damage f while the absorption a
\* is positive and the source is absorbable, the absorption becomes
\* max(0, a - f) and the health decreases by max(0, f - a), clamped at 0.
T_C4_AbsorptionFirst ==
    [][(/\ op'.name = "Hurt" /\ ret'[2] /\ op'.dmg >= 0
        /\ absorptionHealth > 0 /\ Absorbs(op'.src))
       => (/\ absorptionHealth' = Max(0, absorptionHealth - ret'[1])
           /\ health' = Max(0, health - Max(0, ret'[1] - absorptionHealth)))]_vars
\* A hit larger than the absorption used it up and took the rest from the
\* real health.
W_C4_AbsorptionExceeded ==
    /\ op.name = "Hurt" /\ ret[2] /\ Absorbs(op.src)
    /\ ret[1] > 4 * HP /\ absorptionHealth = 0
    /\ health = 20 * HP - (ret[1] - 4 * HP)

\* C5: Hurt and KnockBack on a dead player, or in a game mode that does
\* not allow taking damage, change nothing, invoke no handler hook, and
\* Hurt returns (0, false).
T_C5_NoOpWhenInvulnerable ==
    [][(op'.name \in {"Hurt", "KnockBack"} /\ (IsDead \/ ~Damageable))
       => (/\ health' = health /\ absorptionHealth' = absorptionHealth
           /\ vel' = vel /\ immunity' = immunity /\ armour' = armour
           /\ exhaustionLevel' = exhaustionLevel
           /\ hooks' = <<>>
           /\ (op'.name = "Hurt" => ret' = <<0, FALSE>>))]_vars
\* Hurt by an entity attack was called on a living, armoured player in a
\* game mode that does not allow taking damage.
W_C5_HurtInCreative ==
    /\ op.name = "Hurt" /\ op.dmg > 0 /\ op.src.kind = "entityAttack"
    /\ ~Damageable /\ ~IsDead /\ armour = HeavyArmour
    /\ ret = <<0, FALSE>>

\* C6 as stated: Hurt called with a negative amount on a live, damageable
\* player changes nothing and returns (0, false).
X_C6_NegativeNotVulnerable ==
    [][(op'.name = "Hurt" /\ op'.raw < 0 /\ ~IsDead /\ Damageable)
       => (/\ health' = health /\ absorptionHealth' = absorptionHealth
           /\ exhaustionLevel' = exhaustionLevel /\ immunity' = immunity
           /\ ret' = <<0, FALSE>>)]_vars
\* C6 amended: a Hurt on a live, damageable player whose amount is negative
\* when the hurt hook returns changes nothing and returns damage 0; the
\* vulnerable flag is true when the hook was invoked and continued, false
\* otherwise.
T_C6_NegativeIsNoOp ==
    [][(op'.name = "Hurt" /\ op'.dmg < 0 /\ ~IsDead /\ Damageable)
       => (/\ health' = health /\ absorptionHealth' = absorptionHealth
           /\ exhaustionLevel' = exhaustionLevel /\ immunity' = immunity
           /\ armour' = armour
           /\ ret'[1] = 0
           /\ ret'[2] = HookContinued(hooks', "HandleHurt"))]_vars
\* A negative amount reached the continue closure of Hurt.
W_C6_NegativeContinued ==
    /\ op.name = "Hurt" /\ op.dmg < 0 /\ HookContinued(hooks, "HandleHurt")
    /\ ret = <<0, TRUE>>

\* C7 as stated: the vulnerable flag of Hurt is false only when the player
\* is dead or immune by game mode, and true in every other call.
X_C7_VulnerableUnlessImmune ==
    [][op'.name = "Hurt" => (ret'[2] = ~(IsDead \/ ~Damageable))]_vars
\* C7 amended: the vulnerable flag is false exactly when the player is dead
\* or immune by game mode, or the source is fire-based under fire
\* resistance, or the hurt handler cancels; otherwise it is true, also when
\* the damage is negative or reduced to 0 by armour.
T_C7_VulnerableFlag ==
    [][op'.name = "Hurt"
       => (ret'[2] = ~(\/ IsDead \/ ~Damageable
                      \/ (effects["fireResistance"] > 0 /\ FireSource(op'.src))
                      \/ "HandleHurt" \in h.cancel))]_vars
\* Protection enchantments reduced a positive amount to 0 and Hurt still
\* reported the player vulnerable.
W_C7_ReducedToZero ==
    /\ op.name = "Hurt" /\ op.dmg > 0 /\ ret = <<0, TRUE>>

T_C9_FoodWithinBounds == 0 <= foodLevel /\ foodLevel <= 20
\* SetFood was called with a negative level and the food level is 0.
W_C9_NegativeFoodClamped ==
    /\ op.name = "SetFood" /\ op.level < 0 /\ foodLevel = 0
    /\ out = << <<"food", 0, saturationLevel>> >>

\* The Hurt calls of the last operation that reached the hurt hook with a
\* source of the given kind.
HurtWith(log, kind) ==
    \E i \in 1 .. Len(log) : log[i].hook = "HandleHurt" /\ log[i].args[1] = kind

\* C11: a tick deals starvation damage only if the health before the tick
\* is strictly above the starvation floor of the difficulty (easy 10,
\* normal 2, hard none), and never on peaceful difficulty.
T_C11_StarvationAboveFloor ==
    [][(op'.name = "Tick" /\ HurtWith(hooks', "starvation"))
       => /\ difficulty # "peaceful"
          /\ difficulty = "easy" => health > 10 * HP
          /\ difficulty = "normal" => health > 2 * HP
          /\ foodLevel = 0]_vars
W_C11_StarvedOnEasy ==
    /\ op.name = "Tick" /\ ops = 1 /\ difficulty = "easy"
    /\ HurtWith(hooks, "starvation") /\ health = 10 * HP /\ foodTick = 0

\* The amounts handed to the hurt hook with a source of the given kind.
HurtAmounts(log, kind) ==
    {log[i].args[2] : i \in {j \in 1 .. Len(log) :
                               log[j].hook = "HandleHurt" /\ log[j].args[1] = kind}}
\* A Move that ends on the ground with a fall distance accumulated before.
Landing ==
    /\ op'.name = "Move" /\ HookContinued(hooks', "HandleMove")
    /\ (IF hasSession' THEN onGround' ELSE mcOnGround')
    /\ fallDistance > 0

\* C12: a landing with fall distance d and jump boost level L hands
\* ceil(d - 3 - L) to Hurt iff d - 3 - L >= 0.5, otherwise no fall damage
\* is dealt; 2.9 gives none, 5 gives 2, and 4 with L = 2 gives none.
T_C12_FallDamage ==
    [][LET x == fallDistance - 3 * FD - effects["jumpBoost"] * FD
       IN /\ (Landing /\ Damageable /\ ~IsDead)
               => /\ 2 * x >= FD
                       => \E n \in 1 .. 20 :
                              /\ n * FD >= x /\ (n - 1) * FD < x
                              /\ HurtAmounts(hooks', "fall") = {n * HP}
                  /\ 2 * x < FD => HurtAmounts(hooks', "fall") = {}
                  /\ (fallDistance = 29 /\ effects["jumpBoost"] = 0)
                       => HurtAmounts(hooks', "fall") = {}
                  /\ (fallDistance = 50 /\ effects["jumpBoost"] = 0)
                       => HurtAmounts(hooks', "fall") = {2 * HP}
                  /\ (fallDistance = 40 /\ effects["jumpBoost"] = 2)
                       => HurtAmounts(hooks', "fall") = {}
          /\ (op'.name = "Move" /\ ~Landing) => HurtAmounts(hooks', "fall") = {}]_vars
W_C12_FellFiveBlocks ==
    /\ op.name = "Move" /\ ops = 1 /\ onGround /\ fallDistance = 0
    /\ effects["jumpBoost"] = 0 /\ HurtAmounts(hooks, "fall") = {2 * HP}
    /\ health = 18 * HP

\* SetCooldown stores the expiry now + c; a query of an item without an
\* entry or after the expiry is false, and after the expiry it removes the
\* entry; a query before the expiry is true and keeps the entry.
CooldownQueries ==
    /\ op'.name = "SetCooldown" => cooldowns'[op'.item] = now + op'.cooldown
    /\ op'.name = "HasCooldown"
         => /\ op'.item \notin DOMAIN cooldowns => ret' = <<FALSE>> /\ cooldowns' = cooldowns
            /\ (op'.item \in DOMAIN cooldowns /\ now < cooldowns[op'.item])
                 => ret' = <<TRUE>> /\ cooldowns' = cooldowns
            /\ (op'.item \in DOMAIN cooldowns /\ now > cooldowns[op'.item])
                 => ret' = <<FALSE>> /\ cooldowns' = Remove(cooldowns, op'.item)
\* The entries a Tick leaves are exactly the ones that have not expired.
TickDropsStale ==
    /\ \A i \in DOMAIN cooldowns :
          IF now > cooldowns[i] THEN i \notin DOMAIN cooldowns'
          ELSE i \in DOMAIN cooldowns' /\ cooldowns'[i] = cooldowns[i]
    /\ DOMAIN cooldowns' \subseteq DOMAIN cooldowns

\* C13 as stated: the queries behave as above and the next Tick after the
\* expiry removes the stale entry.
X_C13_TickRemovesStale ==
    [][CooldownQueries /\ (op'.name = "Tick" => TickDropsStale)]_vars
\* C13, amended: the queries behave as above; a Tick of a living player
\* removes the stale entries, a Tick of a dead player leaves the table as
\* it is.
T_C13_Cooldowns ==
    [][/\ CooldownQueries
       /\ (op'.name = "Tick" /\ ~IsDead) => TickDropsStale
       /\ (op'.name = "Tick" /\ IsDead) => cooldowns' = cooldowns]_vars
W_C13_StaleEntryRemoved ==
    /\ op.name = "HasCooldown" /\ op.item = "pearl" /\ op.had
    /\ ret = <<FALSE>> /\ "pearl" \notin DOMAIN cooldowns /\ now = 3 /\ ops = 2

\* The riders of e that sit within its seat positions have the seat
\* position of their index in Riders().
SeatedInOrder(rs, e, own, oth) ==
    \A i \in 1 .. Min(Len(rs), Len(SeatPositions(e))) :
        (IF rs[i] = "p" THEN own ELSE oth[rs[i]].seatPosition) = SeatPositions(e)[i]

\* C14: a player who mounts a rideable with k-1 riders and a free seat
\* becomes its k-th rider, with seat index k-1 and seat position
\* SeatPositions()[k-1]; the riders before it keep their seats.
T_C14_SeatsInCallOrder ==
    [][(/\ op'.name = "MountEntity" /\ HookContinued(hooks', "HandleMount")
        /\ seat(Cur, op'.e, "p") = -1
        /\ Len(riders[op'.e]) < Len(SeatPositions(op'.e)))
       => /\ riders'[op'.e] = Append(riders[op'.e], "p")
          /\ riding' = op'.e
          /\ seatPosition' = SeatPositions(op'.e)[Len(riders[op'.e]) + 1]
          /\ others' = others
          /\ SeatedInOrder(riders'[op'.e], op'.e, seatPosition', others')]_vars
W_C14_SecondSeat ==
    /\ op.name = "MountEntity" /\ op.e = "boat" /\ ops = 1
    /\ riders["boat"] = <<"q", "p">> /\ riding = "boat"
    /\ others["q"].seatPosition = 11 /\ seatPosition = 12

\* The rideables in whose Riders() the player appears.
RiddenBy(rs) == {e \in Rideables : \E i \in 1 .. Len(rs[e]) : rs[e][i] = "p"}

\* C15 as stated: after a dismount the handler let through, the player
\* rides nothing and is in no Riders() list, and the rider at every index
\* i of the rideable it left has the seat position SeatPositions()[i].
X_C15_DismountCompacts ==
    [][(op'.name = "DismountEntity" /\ HookContinued(hooks', "HandleDismount"))
       => /\ riding' = "none"
          /\ riding \notin RiddenBy(riders')
          /\ Len(riders'[riding]) <= Len(SeatPositions(riding))
          /\ SeatedInOrder(riders'[riding], riding, seatPosition', others')
          /\ \A i \in 1 .. Len(out') : out'[i][1] # "panic"]_vars

\* C16 as stated: the player is in the Riders() of at most one rideable,
\* and that rideable is the one RidingEntity() returns.
X_C16_RidesAtMostOne ==
    /\ Cardinality(RiddenBy(riders)) <= 1
    /\ \A e \in RiddenBy(riders) : riding = e

\* C17: a Move the handler cancels leaves position, yaw, pitch, on-ground
\* state, fall distance and the hunger fields as they were; a player with
\* a session is teleported back to the position before the move.
T_C17_CancelledMove ==
    [][(op'.name = "Move" /\ HookStopped(hooks', "HandleMove"))
       => /\ pos' = pos /\ yaw' = yaw /\ pitch' = pitch
          /\ onGround' = onGround /\ fallDistance' = fallDistance
          /\ exhaustionLevel' = exhaustionLevel /\ saturationLevel' = saturationLevel
          /\ foodLevel' = foodLevel /\ health' = health
          /\ out' = (IF hasSession THEN << <<"teleport", pos>> >> ELSE <<>>)]_vars
W_C17_TeleportedBack ==
    /\ op.name = "Move" /\ op.delta = <<1, 0>> /\ HookStopped(hooks, "HandleMove")
    /\ hasSession /\ pos = <<0, 0>> /\ out = << <<"teleport", <<0, 0>>>> >>

\* The blocks, item entities and container contents of the world are as
\* before the operation.
WorldUntouched == blocks' = blocks /\ items' = items /\ chest' = chest

X_C20_CancelledBreakUntouched ==
    [][(op'.name = "BreakBlock" /\ HookStopped(hooks', "HandleBlockBreak"))
       => /\ WorldUntouched /\ held' = held
          /\ exhaustionLevel' = exhaustionLevel /\ saturationLevel' = saturationLevel
          /\ foodLevel' = foodLevel]_vars

\* The food-loss hook invocations of the last operation.
FoodLossCalls(log) == {i \in 1 .. Len(log) : log[i].hook = "HandleFoodLoss"}

\* C21: when the exhaustion of an Exhaust call would lower the food level
\* from `before` to `after`, the food-loss hook is invoked with both; the
\* food level after the call is `before` if the handler stops and `after`
\* if it continues. Without a loss no hook is invoked and the food level
\* stays.
T_C21_FoodLossVeto ==
    [][op'.name = "Exhaust"
       => LET would == IF Damageable /\ ~FoodRegenerates(difficulty)
                       THEN hm_exhaust(Cur, op'.points).foodLevel ELSE foodLevel
          IN /\ (would # foodLevel) = (FoodLossCalls(hooks') # {})
             /\ \A i \in FoodLossCalls(hooks') :
                   /\ hooks'[i].args = <<foodLevel, would>>
                   /\ foodLevel' = (IF hooks'[i].cancel THEN foodLevel ELSE would)
             /\ FoodLossCalls(hooks') = {} => foodLevel' = foodLevel]_vars
W_C21_LossVetoed ==
    /\ op.name = "Exhaust" /\ op.points = 50 * EXH /\ ops = 1
    /\ HookStopped(hooks, "HandleFoodLoss")
    /\ hooks[1].args = <<7, 0>> /\ foodLevel = 7 /\ saturationLevel = 0
    /\ out = << <<"food", 7, 0>> >>

\* The last step was the return of method m.
Returned(m) == op.name = m /\ th[op.t].pc = "idle"
\* A hunger update that is half done: the counter stands at a value the
\* hunger tick resets before it returns.
HalfTicked(d, diff) ==
    \/ d.FoodTick = 80
    \/ d.FoodTick = 10 /\ (d.Hunger >= 18 \/ FoodRegenerates(diff))

\* Some goroutine is inside a method and every such goroutine waits for a
\* lock it cannot get.
Deadlocked ==
    /\ \E t \in Threads : th[t].pc # "idle"
    /\ \A t \in Threads : th[t].pc # "idle" => Blocked(Cur, t)
\* The field each of the four plain locks guards.
Guards == [gameModeMu |-> "gameMode", skinMu |-> "skin", sMutex |-> "s", hMutex |-> "h"]

\* C23 as stated: no lock is acquired and no collaborator is called while
\* the goroutine holds a player lock, and the goroutines never deadlock.
X_C23_MinimalSections ==
    /\ \A i \in 1 .. Len(acc) : acc[i].kind \in {"acquire", "call"} => acc[i].held = {}
    /\ ~Deadlocked
\* C23, amended: the game-mode, skin, session and handler locks are held
\* only for a read or write of their own field; the hunger lock is held
\* (by Data and sendFood) while the game-mode or session lock is acquired
\* and collaborators are called, the riding and cooldown locks while one
\* collaborator is called; no lock is acquired while any lock but the
\* hunger lock is held, and the goroutines never deadlock.
T_C23_LockOrder ==
    /\ \A i \in 1 .. Len(acc) :
          /\ \A l \in DOMAIN Guards :
                l \in acc[i].held => acc[i].kind \in {"read", "write"} /\ acc[i].what = Guards[l]
          /\ (acc[i].kind = "acquire" /\ acc[i].held # {})
               => acc[i].held = {"hunger.mu"} /\ acc[i].what \in {"gameModeMu", "sMutex"}
          /\ (acc[i].kind = "call" /\ acc[i].held # {})
               => acc[i].held \in {{"hunger.mu"}, {"ridingMu"}, {"cooldownMu"}}
    /\ ~Deadlocked
\* Data() holds the hunger lock and waits for the game-mode lock, which a
\* SetGameMode on the other goroutine holds.
W_C23_DataWaits ==
    /\ th["session"].pc = "Data4" /\ Blocked(Cur, "session")
    /\ th["tick"].pc = "SetGameMode1"
    /\ mu["hunger.mu"] = {<<"session", "r">>} /\ mu["gameModeMu"] = {<<"tick", "w">>}

SnapshotWhole == Returned("Data") => ~HalfTicked(ret[1], difficulty)

\* C22 as stated: every read and write of a hunger field is made while the
\* goroutine holds the hunger lock, and the snapshot Data() returns never
\* shows a hunger tick half done.
X_C22_HungerUnderLock ==
    /\ \A i \in 1 .. Len(acc) :
          acc[i].what \in HungerFields => "hunger.mu" \in acc[i].held
    /\ SnapshotWhole

\* C27: AddEffect for a kind already present replaces the instance only if
\* the new level is strictly higher, or the levels are equal and the new
\* duration is longer than what remains; in every other case the level and
\* the remaining duration of the instance are unchanged. The instances of
\* the other kinds are never touched.
T_C27_EffectOverwrite ==
    [][(op'.name = "AddEffect" /\ effects[op'.k] > 0)
       => LET k == op'.k
              replace == \/ op'.lvl > effects[k]
                         \/ (op'.lvl = effects[k] /\ op'.dur > effectTicks[k])
          IN /\ effects'[k] = (IF replace THEN op'.lvl ELSE effects[k])
             /\ effectTicks'[k] = (IF replace THEN op'.dur ELSE effectTicks[k])
             /\ \A j \in EffectKinds \ {k} :
                   effects'[j] = effects[j] /\ effectTicks'[j] = effectTicks[j]]_vars
\* Resistance of level 2 with 99 ticks left was given again at level 2 for
\* 100 ticks and now lasts 100 ticks.
W_C27_LongerReplaces ==
    /\ op.name = "AddEffect" /\ op.k = "resistance" /\ op.lvl = 2 /\ op.dur = 100
    /\ ops = 2 /\ effects["resistance"] = 2 /\ effectTicks["resistance"] = 100

\* C28 as stated: MountEntity mounts the player only if a seat is free: it
\* never takes the riders of a rideable past the number of its seat
\* positions, and on a rideable whose seats are all taken it leaves the
\* player out of Riders() and not riding it.
X_C28_MountNeedsFreeSeat ==
    [][(op'.name = "MountEntity" /\ Len(riders[op'.e]) <= Len(SeatPositions(op'.e)))
       => /\ Len(riders'[op'.e]) <= Len(SeatPositions(op'.e))
          /\ (Len(riders[op'.e]) = Len(SeatPositions(op'.e)) /\ op'.e \notin RiddenBy(riders))
             => (op'.e \notin RiddenBy(riders') /\ riding' # op'.e)]_vars

\* C30 as stated: a tick of a living player resets the hunger tick counter
\* to 0 at count 10 when quick regeneration is eligible or the difficulty
\* regenerates food, and at count 80 otherwise, and the counter lies in
\* 0..79 after it, whatever the counter was before, a value restored from
\* saved data included.
X_C30_FoodTickInRange ==
    [][(op'.name = "Tick" /\ health > 0)
       => LET n == foodTick + 1
              quick == n = 10 /\ (hm_canQuicklyRegenerate(Cur) \/ FoodRegenerates(difficulty))
          IN /\ foodTick' = (IF quick \/ n = 80 THEN 0 ELSE n)
             /\ foodTick' \in 0 .. 79]_vars

\* C31 as stated: kill, and with it HandleDeath, the inventory drop and the
\* delayed follow-up, runs at most once in a life, however Hurt calls from
\* the tick goroutine and from the session goroutine interleave: a step
\* that runs kill starts where no kill has run since the player was
\* created (these scenarios have no respawn and no follow-up firing, so
\* deathTimers counts the kills of the one life).
X_C31_KillOncePerLife ==
    [][HookCalled(hooks', "HandleDeath") => deathTimers = 0]_vars

\* The reasons for which StartBreaking returns before it asks the handler.
StartsNothing(s, at, face) ==
    \/ Block(s, at) = "air" \/ ~canReach(s, at)
    \/ Block(s, Side(at, face)) = "fire"
    \/ (s.held.kind = "sword" /\ CreativeInventory(s.gameMode))
X_C33_SneakXorSprint == ~(sneaking /\ sprinting)

\* C40 as stated: a DismountEntity that the dismount handler stops leaves
\* the riders of every rideable, the player's mount and seat and the seats
\* of the other riders as they were, faults for no player, with or without
\* a session, and re-sends the mount to the session of a player that has
\* one; DismountEntity on a player that rides nothing calls no hook and
\* changes nothing.
X_C40_StoppedDismount ==
    [][op'.name = "DismountEntity"
       => LET same == /\ riders' = riders /\ riding' = riding
                      /\ seatPosition' = seatPosition /\ others' = others
          IN /\ riding = "none" => same /\ hooks' = <<>> /\ out' = <<>>
             /\ HookStopped(hooks', "HandleDismount")
                  => /\ same
                     /\ \A i \in 1 .. Len(out') : out'[i][1] # "panic"
                     /\ hasSession => \E i \in 1 .. Len(out') : out'[i][1] = "mount"]_vars

\* C39 as stated: while an Exhaust call has not yet had its food loss let
\* through by the handler, Food() on another goroutine returns the level
\* the player had before the call.
X_C39_PendingLossHidden ==
    (/\ Returned("Food")
     /\ th["session"].m = "Exhaust"
     /\ th["session"].pc \in {"Exhaust2", "Exhaust3", "Exhaust4", "Exhaust5", "Exhaust6"})
    => ret[1] = th["session"].snap[1]

\* C38 as stated: the follow-up of a death after which the player respawned
\* (the player is alive, or it died again and a later follow-up is pending
\* as well) neither hides nor moves a player with a session.
X_C38_FollowUpOfOwnDeath ==
    [][op'.name = "AfterFunc" /\ hasSession /\ (~IsDead \/ deathTimers > 1)
       => pos' = pos /\ invisible' = invisible]_vars

UserQuits(log) ==
    Cardinality({i \in 1 .. Len(log) : log[i].hook = "HandleQuit" /\ log[i].args[1].user})
TearsDown(o) == o.name \in {"Close", "Disconnect", "AfterFunc"}
\* C37: the teardown that closes the player notifies the installed handler
\* at most once and leaves the player with the no-op handler and no
\* session; a later Close, Disconnect or death follow-up, with no Handle
\* since, notifies no user handler and leaves both as they are.
T_C37_QuitOnce ==
    [][TearsDown(op')
       => /\ (~closed /\ closed')
               => UserQuits(hooks') <= 1 /\ h' = NopHandler /\ ~hasSession'
          /\ (closed /\ h = NopHandler)
               => UserQuits(hooks') = 0 /\ h' = NopHandler /\ ~hasSession']_vars
\* A second teardown of a closed player notified the no-op handler that the
\* first one installed.
W_C37_SecondTeardown ==
    /\ ops = 2 /\ TearsDown(op) /\ closed
    /\ HookCalled(hooks, "HandleQuit") /\ UserQuits(hooks) = 0

FireTickHurt(log) ==
    \E i \in 1 .. Len(log) : log[i].hook = "HandleHurt" /\ log[i].args[1] = "fireTick"
\* C36 as stated: a Tick that leaves the player with no fire ticks (the
\* fire ran out, was put out, or was never there) deals no fire-tick
\* damage, and Tick never makes the fire ticks negative.
X_C36_FireDamageWhileBurning ==
    [][op'.name = "Tick" => fireTicks' >= 0 /\ (fireTicks' = 0 => ~FireTickHurt(hooks'))]_vars

\* C35 as stated: once StartFlying and SetGameMode have returned, in
\* whatever order their statements ran, a flying player is in a game mode
\* that allows flying.
X_C35_FlyingAllowed ==
    (\A t \in Threads : th[t].pc = "idle") /\ flying => AllowsFlying(gameMode)

\* C34 as stated: while no SetSpeed intervenes, the speed is the base speed
\* times 1.3 while the player sprints and the base speed itself while it
\* does not.
X_C34_SprintBonusOnce ==
    /\ sprinting => speed = F64_Times13(Base)
    /\ ~sprinting => speed = Base

\* C26 as stated: PlaceBlock with a nil use context completes without
\* fault and treats the block as with a non-nil context, and with a non-nil
\* context CountSub is incremented by exactly 1 if and only if the block
\* was placed.
X_C26_NilUseContext ==
    [][op'.name = "PlaceBlock"
       => LET ctx == op'.ctx
              like == placeBlock(Cur, op'.pos, op'.b, FALSE, Pol(Cur, FALSE))
          IN /\ ~\E i \in 1 .. Len(out') : out'[i][1] = "panic"
             /\ IsNil(ctx) => blocks' = like.blocks
             /\ ~IsNil(ctx)
                => ret'[1].CountSub
                   = ctx.CountSub + (IF \E i \in 1 .. Len(out') :
                                           out'[i] = <<"sound", "place", op'.pos>>
                                     THEN 1 ELSE 0)]_vars

\* The cells the deferred function of placeBlock re-sends, as messages.
Resent(s, at) ==
    [i \in 1 .. Len(Neighbours(at)) + 1 |->
        LET n == Append(Neighbours(at), at)[i] IN <<"block", n, Block(s, n)>>]
\* C29: placeBlock puts the block at the position and returns true if and
\* only if the position is within reach, the game mode allows editing, the
\* position is unobstructed or obstruction is ignored, and the block-place
\* handler continues; otherwise it returns false, leaves the blocks as they
\* were and re-sends the position and its neighbours.
T_C29_PlacedIff ==
    [][op'.name = "placeBlock"
       => LET at == op'.pos
              ok == /\ canReach(Cur, at) /\ AllowsEditing(gameMode)
                    /\ (op'.ignoreAABB \/ ~obstructedPos(Cur, at, op'.b))
                    /\ "HandleBlockPlace" \notin h.cancel
          IN /\ ret' = <<ok>>
             /\ ok => blocks'[at] = op'.b /\ \A n \in DOMAIN blocks \ {at} : blocks'[n] = blocks[n]
             /\ ~ok => /\ blocks' = blocks
                       /\ SelectSeq(out', LAMBDA m : m[1] = "block") = Resent(Cur, at)]_vars
\* A stone block was placed where there was air, on a player's own head
\* with obstruction ignored.
W_C29_PlacedIgnoringPlayer ==
    /\ op.name = "placeBlock" /\ ret = <<TRUE>> /\ op.ignoreAABB
    /\ op.pos = <<0, 1>> /\ pos = <<0, 0>> /\ blocks[op.pos] = "stone"

\* C25: the player always has exactly one handler and it is never nil: a
\* Handle call stores its argument, or the no-op handler for nil; close()
\* stores the no-op handler; handler() returns the handler installed at the
\* moment of the read, never nil; and a hook is invoked on the handler that
\* was read, whatever Handle or close() stored since.
T_C25_OneHandler ==
    /\ ~IsNil(h)
    /\ \A t \in Threads : ~IsNil(th[t].h)
    /\ (op.name = "Handle" /\ op.pc = "Handle1")
       => h = (IF IsNil(op.arg[1]) THEN NopHandler ELSE op.arg[1])
    /\ (op.name = "Close" /\ op.pc = "Close1") => h = NopHandler
    /\ (op.name = "SetSkin" /\ op.pc = "SetSkin0" /\ th[op.t].pc = "SetSkin1")
       => th[op.t].h = h
    /\ \A i \in 1 .. Len(hooks) :
          hooks[i].hook \in {"HandleSkinChange", "HandleQuit"}
          => hooks[i].args = <<th[op.t].h>>
    /\ ~\E i \in 1 .. Len(out) : out[i] = <<"panic", "nil handler">>
\* SetSkin invoked the skin hook on the vetoing handler it had read, after a
\* concurrent Close had replaced that handler by the no-op handler.
W_C25_HookOnHandlerRead ==
    /\ op.name = "SetSkin" /\ HookStopped(hooks, "HandleSkinChange")
    /\ hooks[1].args[1] # h /\ h = NopHandler /\ th["tick"].m = "Close"

\* C24 as stated: the delayed follow-up of a death, run for a player that
\* was already closed, changes neither the position, the visibility, the
\* handler, the session nor the world membership of the player, and does
\* not run the teardown (the quit notification) again.
X_C24_FollowUpAfterClose ==
    [][(closed /\ op'.name = "AfterFunc")
       => /\ pos' = pos /\ invisible' = invisible /\ h' = h
          /\ hasSession' = hasSession /\ inWorld' = inWorld
          /\ ~HookCalled(hooks', "HandleQuit")]_vars

\* C10 as stated: in every reachable state the saturation level is at most
\* the food level.
X_C10_SaturationWithinFood == saturationLevel <= foodLevel * SAT
====
